---- MODULE Spec2Model ----
(***************************************************************************)
(* State-machine model of the quantitative core of football-analyzer:      *)
(*   backend/app/services/elo_rating.py      (EloRating)                   *)
(*   backend/app/services/poisson_model.py   (PoissonModel)                *)
(*   backend/app/services/value_bet_service.py (ValueBetAnalyzer)          *)
(*   backend/app/services/xg_model.py        (XGModel)                     *)
(*   backend/app/utils/utils.py              (poisson_probability)         *)
(* Floating-point quantities are modelled exactly: the Elo logistic is     *)
(* evaluated in fixed point with six decimal digits, the Poisson           *)
(* probabilities in fixed point with nine, everything else in rational     *)
(* arithmetic on pairs <<numerator, denominator>>.                         *)
(***************************************************************************)
EXTENDS Integers, Sequences, FiniteSets, TLC

VARIABLES
    ratings,        \* EloRating.ratings: team -> integer rating (a dict)
    k_factor,       \* EloRating.k_factor, fixed by the constructor
    elo_call,       \* the last completed call on the EloRating instance
    played,         \* teams that were home or away team of a processed update
    n_calls,        \* number of calls made on the EloRating instance
    bulk_matches,   \* bulk_update: the list being iterated
    bulk_i,         \* bulk_update: index of the next match, 0 when not running
    bulk_ratings0,  \* bulk_update: the rating map when the call started
    team_attack,    \* PoissonModel.team_attack: team -> coefficient
    team_defense,   \* PoissonModel.team_defense: team -> coefficient
    poisson_call,   \* the last completed call on the PoissonModel instance
    n_fits,         \* number of fit calls made on the PoissonModel instance
    fitted,         \* the batch of the last fit that returned, <<>> if none
    vb_call,        \* the last completed call on the ValueBetAnalyzer
    util_call,      \* the last completed call of a function of utils.py
    is_trained,     \* XGModel.is_trained
    model_classes,  \* the goal labels XGModel.model was last fitted on
    xg_call,        \* the last completed call on the XGModel instance
    threads,        \* the update_ratings call of each thread on the shared
                    \* EloRating instance: its position, arguments and locals
    mutex,          \* the thread inside a mutually excluded call, 0 if none
    readers,        \* the read-only call of each reader thread: its operation,
                    \* arguments, the values read so far and its result
    scan_call,      \* the value-bet scan of the API whose response the client
                    \* holds, op "none" once it has let go of it
    market_call     \* the market analysis of the ValueBetAnalyzer whose result
                    \* the caller holds, op "none" once it has let go of it

eloVars == <<ratings, k_factor, elo_call, played, n_calls,
             bulk_matches, bulk_i, bulk_ratings0>>

poissonVars == <<team_attack, team_defense, poisson_call, n_fits, fitted>>

valueVars == <<vb_call>>

utilVars == <<util_call>>

xgVars == <<is_trained, model_classes, xg_call>>

marketVars == <<market_call>>

threadVars == <<threads, mutex>>

readerVars == <<readers>>

scanVars == <<scan_call>>

vars == <<ratings, k_factor, elo_call, played, n_calls,
          bulk_matches, bulk_i, bulk_ratings0,
          team_attack, team_defense, poisson_call, n_fits, fitted, vb_call,
          util_call, is_trained, model_classes, xg_call, market_call,
          threads, mutex, readers, scan_call>>

(***************************************************************************)
(* Bounds of the model.                                                    *)
(***************************************************************************)
MaxCalls == 2
MaxBulk == 2
MaxFits == 2
MaxMatches == 2
MaxOddsQ == 16
ProbSteps == 4
MaxMeanQ == 12
MaxK == 6
MaxShots == 2
MaxFixtures == 2
MaxExtraFixtures == 2

Teams == {"TeamA", "TeamB", "TeamC"}
\* the <<home, away>> pairings offered to the model
Fixtures == {<<"TeamA", "TeamB">>, <<"TeamB", "TeamA">>, <<"TeamB", "TeamC">>}
Results == {"home_win", "away_win", "draw", "penalties"}
ValidResults == {"home_win", "away_win", "draw"}
Importances == {1, 2}
KFactors == {1, 40}

(***************************************************************************)
(* Integer helpers.                                                        *)
(***************************************************************************)
Abs(x) == IF x < 0 THEN -x ELSE x

RECURSIVE GcdNat(_, _)
GcdNat(a, b) == IF b = 0 THEN a ELSE GcdNat(b, a % b)

Gcd(a, b) == GcdNat(Abs(a), Abs(b))

\* round replaced by math.floor
round_floor(x, num, den) == x + (num \div den)

\* Python 3 round(x + num/den) for an integer x and den > 0: the nearest
\* integer, a tie going to the even neighbour
round(x, num, den) ==
    LET q == x + (num \div den)
        r == num % den
    IN  IF 2 * r > den \/ (2 * r = den /\ q % 2 = 1) THEN q + 1 ELSE q

(***************************************************************************)
(* Fixed-point evaluation of 1 / (1 + 10 ** (d / 400)).                    *)
(* A value v in [0, 1] is the integer v * ONE.                             *)
(***************************************************************************)
FixBase == 10 ^ 3
ONE == FixBase * FixBase

\* 10 ** (-(2 ** (i-1)) / 400) for i = 1..9, in fixed point
Pow10Table == <<994260, 988553, 977237, 954993, 912011,
                831764, 691831, 478630, 229087>>

FixMul(a, b) ==
    LET ah == a \div FixBase
        al == a % FixBase
        bh == b \div FixBase
        bl == b % FixBase
    IN  ah * bh + (ah * bl + al * bh + (al * bl) \div FixBase) \div FixBase

RECURSIVE Pow2(_)
Pow2(i) == IF i = 0 THEN 1 ELSE 2 * Pow2(i - 1)

RECURSIVE Pow10Int(_)
Pow10Int(q) == IF q = 0 THEN 1 ELSE 10 * Pow10Int(q - 1)

RECURSIVE PowAcc(_, _, _)
PowAcc(r, i, y) ==
    IF i > Len(Pow10Table) THEN y
    ELSE PowAcc(r, i + 1,
                IF (r \div Pow2(i - 1)) % 2 = 1 THEN FixMul(y, Pow10Table[i])
                ELSE y)

\* 10 ** (-n / 400) for an integer n >= 0
Pow10Neg(n) ==
    LET q == n \div 400
        r == n % 400
    IN  IF q > 8 THEN 0 ELSE PowAcc(r, 1, ONE) \div Pow10Int(q)

RECURSIVE FixDivDigits(_, _, _, _)
FixDivDigits(r, b, acc, k) ==
    IF k = 0 THEN acc
    ELSE FixDivDigits((r * 10) % b, b, acc * 10 + (r * 10) \div b, k - 1)

\* a / b in fixed point, for 0 <= a <= b
FixDiv(a, b) == FixDivDigits(a % b, b, a \div b, 6)

\* 1 / (1 + 10 ** ((rating_b - rating_a) / 400))
Logistic(rating_a, rating_b) ==
    LET d == rating_b - rating_a
    IN  IF d <= 0 THEN FixDiv(ONE, ONE + Pow10Neg(-d))
        ELSE FixDiv(Pow10Neg(d), ONE + Pow10Neg(d))

(***************************************************************************)
(* EloRating                                                               *)
(***************************************************************************)
default_rating == 1500
home_advantage == 100

\* EloRating.get_rating: dict.get(team, default), no entry is created
get_rating(r, team) == IF team \in DOMAIN r THEN r[team] ELSE default_rating

\* EloRating.calculate_expected_score, as a fixed-point number
calculate_expected_score(r, team_a, team_b, team_a_home) ==
    LET rating_a == get_rating(r, team_a) + (IF team_a_home THEN home_advantage ELSE 0)
        rating_b == get_rating(r, team_b)
    IN  Logistic(rating_a, rating_b)

\* twice the actual score of the home team; every other label is a draw
actual_home2(result) ==
    IF result = "home_win" THEN 2
    ELSE IF result = "away_win" THEN 0
    ELSE 1

actual_away2(result) == 2 - actual_home2(result)

\* dict store r[team] = value
Store(r, team, value) ==
    [t \in (DOMAIN r) \cup {team} |-> IF t = team THEN value ELSE r[t]]

\* numerator, over 2 * ONE, of adjusted_k * (actual - expected)
Adjustment(k, importance, actual2, expected) ==
    k * importance * (actual2 * ONE - 2 * expected)

new_home_rating(r, k, home_team, away_team, result, importance) ==
    round(get_rating(r, home_team),
          Adjustment(k, importance, actual_home2(result),
                     calculate_expected_score(r, home_team, away_team, TRUE)),
          2 * ONE)

new_away_rating(r, k, home_team, away_team, result, importance) ==
    round(get_rating(r, away_team),
          Adjustment(k, importance, actual_away2(result),
                     calculate_expected_score(r, away_team, home_team, FALSE)),
          2 * ONE)

\* the rating map left by EloRating.update_ratings
update_ratings(r, k, home_team, away_team, result, importance) ==
    Store(Store(r, home_team,
                new_home_rating(r, k, home_team, away_team, result, importance)),
          away_team,
          new_away_rating(r, k, home_team, away_team, result, importance))

(***************************************************************************)
(* Rational numbers <<n, d>> with d > 0, always in lowest terms.           *)
(***************************************************************************)
Rat(n, d) ==
    LET g == Gcd(n, d)
        s == IF d < 0 THEN -1 ELSE 1
    IN  <<s * (n \div g), s * (d \div g)>>

RatMul(x, y) ==
    LET g1 == Gcd(x[1], y[2])
        g2 == Gcd(y[1], x[2])
    IN  IF x[1] = 0 \/ y[1] = 0 THEN <<0, 1>>
        ELSE Rat((x[1] \div g1) * (y[1] \div g2), (x[2] \div g2) * (y[2] \div g1))

\* x / y for y # 0
RatDiv(x, y) == RatMul(x, Rat(y[2], y[1]))

RatAdd(x, y) ==
    LET g == Gcd(x[2], y[2])
    IN  Rat(x[1] * (y[2] \div g) + y[1] * (x[2] \div g), x[2] * (y[2] \div g))

RatSub(x, y) == RatAdd(x, <<-y[1], y[2]>>)

RatLess(x, y) == RatSub(x, y)[1] < 0

RatOne == <<1, 1>>
RatZero == <<0, 1>>

\* max(x, y) and min(x, y) of Python: the first argument unless the second is
\* strictly larger (smaller)
RatMax(x, y) == IF RatLess(x, y) THEN y ELSE x
RatMin(x, y) == IF RatLess(y, x) THEN y ELSE x

\* p_draw = 0.3 in EloRating.predict_match
p_draw == <<3, 10>>

\* predict_match with p_away = 1 - expected_home, the draw share not removed
predict_match_unscaled(r, home_team, away_team) ==
    LET expected_home == Rat(calculate_expected_score(r, home_team, away_team, TRUE), ONE)
        p_home == RatMul(expected_home, RatSub(RatOne, p_draw))
        p_away == RatSub(RatOne, expected_home)
        total == RatAdd(RatAdd(p_home, p_draw), p_away)
    IN  <<RatDiv(p_home, total), RatDiv(p_draw, total), RatDiv(p_away, total),
          get_rating(r, home_team), get_rating(r, away_team), expected_home>>

\* EloRating.predict_match: <<home_win, draw, away_win, home_team_rating,
\* away_team_rating, expected_score>>
predict_match(r, home_team, away_team) ==
    LET expected_home == Rat(calculate_expected_score(r, home_team, away_team, TRUE), ONE)
        p_home == RatMul(expected_home, RatSub(RatOne, p_draw))
        p_away == RatMul(RatSub(RatOne, expected_home), RatSub(RatOne, p_draw))
        total == RatAdd(RatAdd(p_home, p_draw), p_away)
    IN  <<RatDiv(p_home, total), RatDiv(p_draw, total), RatDiv(p_away, total),
          get_rating(r, home_team), get_rating(r, away_team), expected_home>>

(***************************************************************************)
(* Match records handed to bulk_update: a dict with the keys in `keys`.    *)
(***************************************************************************)
RequiredKeys == {"home_team", "away_team", "result"}

MatchRecord(keys, home_team, away_team, result, importance) ==
    [keys |-> keys, home_team |-> home_team, away_team |-> away_team,
     result |-> result, importance |-> importance]

WellFormedRecords ==
    {MatchRecord(RequiredKeys, "TeamA", "TeamB", "home_win", 0),
     MatchRecord(RequiredKeys \cup {"importance"}, "TeamB", "TeamC", "draw", 2)}

MalformedRecords ==
    {MatchRecord(RequiredKeys \ {"result"}, "TeamC", "TeamA", "", 0)}

BulkRecords == WellFormedRecords \cup MalformedRecords

BulkLists == UNION {[1..n -> BulkRecords] : n \in 0..MaxBulk}

\* match.get('importance', 1.0)
match_importance(match) ==
    IF "importance" \in match.keys THEN match.importance ELSE 1

\* match['home_team'], match['away_team'], match['result'] raise KeyError
\* when the key is absent
RaisesKeyError(match) == ~(RequiredKeys \subseteq match.keys)

NoCall == [op |-> "none", home |-> "", away |-> "", result |-> "",
           importance |-> 0, outcome |-> "ok", ret |-> <<>>]

EloInit ==
    /\ ratings = <<>>
    /\ k_factor \in KFactors
    /\ elo_call = NoCall
    /\ played = {}
    /\ n_calls = 0
    /\ bulk_matches = <<>>
    /\ bulk_i = 0
    /\ bulk_ratings0 = <<>>

\* EloRating.update_ratings(home_team, away_team, result, importance)
UpdateRatings(home_team, away_team, result, importance) ==
    /\ bulk_i = 0
    /\ n_calls < MaxCalls
    /\ ratings' = update_ratings(ratings, k_factor, home_team, away_team,
                                 result, importance)
    /\ elo_call' = [op |-> "update_ratings", home |-> home_team,
                    away |-> away_team, result |-> result,
                    importance |-> importance, outcome |-> "ok",
                    ret |-> <<new_home_rating(ratings, k_factor, home_team,
                                              away_team, result, importance),
                              new_away_rating(ratings, k_factor, home_team,
                                              away_team, result, importance)>>]
    /\ played' = played \cup {home_team, away_team}
    /\ n_calls' = n_calls + 1
    /\ UNCHANGED <<k_factor, bulk_matches, bulk_i, bulk_ratings0>>
    /\ UNCHANGED <<poissonVars, valueVars, utilVars, xgVars,
                 marketVars, threadVars, readerVars, scanVars>>

\* get_rating written with dict.setdefault: the read stores the default
GetRatingSetDefault(team) ==
    /\ bulk_i = 0
    /\ n_calls < MaxCalls
    /\ n_calls' = n_calls + 1
    /\ ratings' = IF team \in DOMAIN ratings THEN ratings
                  ELSE Store(ratings, team, default_rating)
    /\ elo_call' = [NoCall EXCEPT !.op = "get_rating", !.home = team,
                                  !.ret = <<get_rating(ratings, team)>>]
    /\ UNCHANGED <<k_factor, played, bulk_matches, bulk_i, bulk_ratings0>>
    /\ UNCHANGED <<poissonVars, valueVars, utilVars, xgVars,
                 marketVars, threadVars, readerVars, scanVars>>

\* EloRating.get_rating(team)
GetRating(team) ==
    /\ bulk_i = 0
    /\ n_calls < MaxCalls
    /\ n_calls' = n_calls + 1
    /\ elo_call' = [NoCall EXCEPT !.op = "get_rating", !.home = team,
                                  !.ret = <<get_rating(ratings, team)>>]
    /\ UNCHANGED <<ratings, k_factor, played, bulk_matches, bulk_i, bulk_ratings0>>
    /\ UNCHANGED <<poissonVars, valueVars, utilVars, xgVars,
                 marketVars, threadVars, readerVars, scanVars>>

\* EloRating.predict_match(home_team, away_team)
PredictMatch(home_team, away_team) ==
    /\ bulk_i = 0
    /\ n_calls < MaxCalls
    /\ n_calls' = n_calls + 1
    /\ elo_call' = [NoCall EXCEPT !.op = "predict_match", !.home = home_team,
                                  !.away = away_team,
                                  !.ret = predict_match(ratings, home_team, away_team)]
    /\ UNCHANGED <<ratings, k_factor, played, bulk_matches, bulk_i, bulk_ratings0>>
    /\ UNCHANGED <<poissonVars, valueVars, utilVars, xgVars,
                 marketVars, threadVars, readerVars, scanVars>>

\* EloRating.bulk_update(matches): entry into the loop
BulkUpdate(matches) ==
    /\ bulk_i = 0
    /\ n_calls < MaxCalls
    /\ bulk_matches' = matches
    /\ bulk_i' = 1
    /\ bulk_ratings0' = ratings
    /\ elo_call' = [NoCall EXCEPT !.op = "bulk_update", !.outcome = "running"]
    /\ n_calls' = n_calls + 1
    /\ UNCHANGED <<ratings, k_factor, played>>
    /\ UNCHANGED <<poissonVars, valueVars, utilVars, xgVars,
                 marketVars, threadVars, readerVars, scanVars>>

\* an iteration that computes from the ratings the call started with
BulkMatchStale ==
    /\ bulk_i >= 1
    /\ bulk_i <= Len(bulk_matches)
    /\ ~RaisesKeyError(bulk_matches[bulk_i])
    /\ LET match == bulk_matches[bulk_i]
           stale == update_ratings(bulk_ratings0, k_factor, match.home_team,
                                   match.away_team, match.result,
                                   match_importance(match))
       IN  /\ ratings' = Store(Store(ratings, match.home_team, stale[match.home_team]),
                               match.away_team, stale[match.away_team])
           /\ played' = played \cup {match.home_team, match.away_team}
    /\ bulk_i' = bulk_i + 1
    /\ UNCHANGED <<k_factor, elo_call, n_calls, bulk_matches, bulk_ratings0>>
    /\ UNCHANGED <<poissonVars, valueVars, utilVars, xgVars,
                 marketVars, threadVars, readerVars, scanVars>>

\* one iteration of `for match in matches` on a record with all required keys
BulkMatch ==
    /\ bulk_i >= 1
    /\ bulk_i <= Len(bulk_matches)
    /\ ~RaisesKeyError(bulk_matches[bulk_i])
    /\ LET match == bulk_matches[bulk_i]
       IN  /\ ratings' = update_ratings(ratings, k_factor, match.home_team,
                                        match.away_team, match.result,
                                        match_importance(match))
           /\ played' = played \cup {match.home_team, match.away_team}
    /\ bulk_i' = bulk_i + 1
    /\ UNCHANGED <<k_factor, elo_call, n_calls, bulk_matches, bulk_ratings0>>
    /\ UNCHANGED <<poissonVars, valueVars, utilVars, xgVars,
                 marketVars, threadVars, readerVars, scanVars>>

\* a failing iteration that restores the ratings the call started with
BulkFailRollback ==
    /\ bulk_i >= 1
    /\ bulk_i <= Len(bulk_matches)
    /\ RaisesKeyError(bulk_matches[bulk_i])
    /\ elo_call' = [NoCall EXCEPT !.op = "bulk_update", !.outcome = "KeyError",
                                  !.ret = <<bulk_i>>]
    /\ bulk_i' = 0
    /\ ratings' = bulk_ratings0
    /\ UNCHANGED <<k_factor, played, n_calls, bulk_matches, bulk_ratings0>>
    /\ UNCHANGED <<poissonVars, valueVars, utilVars, xgVars,
                 marketVars, threadVars, readerVars, scanVars>>

\* an iteration that hits a record without a required key: the KeyError
\* leaves the loop and the method; ret holds the index of the record
BulkFail ==
    /\ bulk_i >= 1
    /\ bulk_i <= Len(bulk_matches)
    /\ RaisesKeyError(bulk_matches[bulk_i])
    /\ elo_call' = [NoCall EXCEPT !.op = "bulk_update", !.outcome = "KeyError",
                                  !.ret = <<bulk_i>>]
    /\ bulk_i' = 0
    /\ UNCHANGED <<ratings, k_factor, played, n_calls, bulk_matches,
                   bulk_ratings0>>
    /\ UNCHANGED <<poissonVars, valueVars, utilVars, xgVars,
                 marketVars, threadVars, readerVars, scanVars>>

\* the loop is exhausted and bulk_update returns
BulkReturn ==
    /\ bulk_i >= 1
    /\ bulk_i > Len(bulk_matches)
    /\ elo_call' = [NoCall EXCEPT !.op = "bulk_update", !.outcome = "ok"]
    /\ bulk_i' = 0
    /\ UNCHANGED <<ratings, k_factor, played, n_calls, bulk_matches,
                   bulk_ratings0>>
    /\ UNCHANGED <<poissonVars, valueVars, utilVars, xgVars,
                 marketVars, threadVars, readerVars, scanVars>>

(***************************************************************************)
(* update_ratings called from two threads on one EloRating instance.       *)
(* A thread may be switched between any two reads or writes of             *)
(* self.ratings; a caller may wrap its call in a lock shared with the      *)
(* other callers.                                                          *)
(***************************************************************************)
Threads == {1, 2}

\* the accesses to self.ratings of one update_ratings call, in program order:
\* the reads of lines 72 and 73, the two reads of get_rating (lines 46, 47) in
\* each calculate_expected_score call of lines 87 and 88, the writes of lines
\* 97 and 98
Positions == <<"read_home", "read_away", "expected_home_a", "expected_home_b",
               "expected_away_a", "expected_away_b", "write_home", "write_away">>

\* the team whose rating the read at position i of a call fetches
read_team(call, i) ==
    IF i \in {1, 3, 6} THEN call.home ELSE call.away

\* pc 0: no call made yet; pc i in DOMAIN Positions: access i is next;
\* pc Len(Positions) + 1: the call has returned
IdleThread == [pc |-> 0, home |-> "", away |-> "", result |-> "",
               importance |-> 1, locked |-> FALSE, reads |-> <<>>]

\* lines 91-93 on the values the thread has read
thread_new_home_rating(k, call) ==
    round(call.reads[1],
          Adjustment(k, call.importance, actual_home2(call.result),
                     Logistic(call.reads[3] + home_advantage, call.reads[4])),
          2 * ONE)

\* lines 91-94 on the values the thread has read
thread_new_away_rating(k, call) ==
    round(call.reads[2],
          Adjustment(k, call.importance, actual_away2(call.result),
                     Logistic(call.reads[5], call.reads[6])),
          2 * ONE)

ThreadInit ==
    /\ threads = [t \in Threads |-> IdleThread]
    /\ mutex = 0

\* a call that starts whether or not another mutually excluded call is running
ThreadCallNoWait(t, home_team, away_team, result, locked) ==
    /\ threads[t].pc = 0
    /\ threads' = [threads EXCEPT ![t] = [IdleThread EXCEPT
                      !.pc = 1, !.home = home_team, !.away = away_team,
                      !.result = result, !.locked = locked]]
    /\ mutex' = IF locked THEN t ELSE mutex
    /\ UNCHANGED <<eloVars, poissonVars, valueVars, utilVars, xgVars, marketVars,
                 readerVars, scanVars>>

\* thread t enters update_ratings(home_team, away_team, result); a locked call
\* waits until no other locked call is running
ThreadCall(t, home_team, away_team, result, locked) ==
    /\ threads[t].pc = 0
    /\ locked => mutex = 0
    /\ threads' = [threads EXCEPT ![t] = [IdleThread EXCEPT
                      !.pc = 1, !.home = home_team, !.away = away_team,
                      !.result = result, !.locked = locked]]
    /\ mutex' = IF locked THEN t ELSE mutex
    /\ UNCHANGED <<eloVars, poissonVars, valueVars, utilVars, xgVars, marketVars,
                 readerVars, scanVars>>

\* one self.ratings.get(team, self.default_rating) of the call of thread t
ThreadRead(t) ==
    /\ threads[t].pc \in DOMAIN Positions
    /\ Positions[threads[t].pc] \notin {"write_home", "write_away"}
    /\ threads' = [threads EXCEPT
                     ![t].reads = Append(@, get_rating(ratings,
                                                       read_team(threads[t],
                                                                 threads[t].pc))),
                     ![t].pc = @ + 1]
    /\ UNCHANGED <<eloVars, poissonVars, valueVars, utilVars, xgVars, marketVars,
                 readerVars, scanVars>>
    /\ UNCHANGED mutex

\* line 97: self.ratings[home_team] = new_home_rating
ThreadWriteHome(t) ==
    /\ threads[t].pc \in DOMAIN Positions
    /\ Positions[threads[t].pc] = "write_home"
    /\ ratings' = Store(ratings, threads[t].home,
                        thread_new_home_rating(k_factor, threads[t]))
    /\ threads' = [threads EXCEPT ![t].pc = @ + 1]
    /\ UNCHANGED <<k_factor, elo_call, played, n_calls, bulk_matches, bulk_i,
                   bulk_ratings0, mutex>>
    /\ UNCHANGED <<poissonVars, valueVars, utilVars, xgVars, marketVars,
                 readerVars, scanVars>>

\* line 98: self.ratings[away_team] = new_away_rating, and the return, after
\* which a locked call lets the next one in
ThreadWriteAway(t) ==
    /\ threads[t].pc \in DOMAIN Positions
    /\ Positions[threads[t].pc] = "write_away"
    /\ ratings' = Store(ratings, threads[t].away,
                        thread_new_away_rating(k_factor, threads[t]))
    /\ threads' = [threads EXCEPT ![t].pc = @ + 1]
    /\ mutex' = IF threads[t].locked THEN 0 ELSE mutex
    /\ UNCHANGED <<k_factor, elo_call, played, n_calls, bulk_matches, bulk_i,
                   bulk_ratings0>>
    /\ UNCHANGED <<poissonVars, valueVars, utilVars, xgVars, marketVars,
                 readerVars, scanVars>>

(***************************************************************************)
(* PoissonModel                                                            *)
(***************************************************************************)
\* the float nan, kept apart from every rational by its zero denominator
NaN == <<0, 0>>
IsNaN(x) == x[2] = 0

\* PoissonModel.home_advantage = 1.35
poisson_home_advantage == <<27, 20>>

NumIterations == 5

PoissonFixtures == {<<"TeamA", "TeamB">>, <<"TeamB", "TeamC">>}
\* goals a side scores in one match
Goals == {0, 1}

PoissonRecords ==
    {[home_team |-> f[1], away_team |-> f[2], home_goals |-> hg, away_goals |-> ag] :
        f \in PoissonFixtures, hg \in Goals, ag \in Goals}

PoissonLists == UNION {[1..n -> PoissonRecords] : n \in 0..MaxMatches}

RECURSIVE SumInts(_)
SumInts(xs) == IF xs = <<>> THEN 0 ELSE Head(xs) + SumInts(Tail(xs))

\* Python sum() over floats: nan as soon as one term is nan
RECURSIVE SumRats(_)
SumRats(xs) ==
    IF xs = <<>> THEN RatZero
    ELSE LET rest == SumRats(Tail(xs))
         IN  IF IsNaN(Head(xs)) \/ IsNaN(rest) THEN NaN
             ELSE RatAdd(Head(xs), rest)

\* float product and quotient with nan propagation; 0/0 is nan
FMul(x, y) == IF IsNaN(x) \/ IsNaN(y) THEN NaN ELSE RatMul(x, y)
FDiv(x, y) == IF IsNaN(x) \/ IsNaN(y) \/ y[1] = 0 THEN NaN ELSE RatDiv(x, y)

\* `x > 0` on floats: False for nan
Positive(x) == ~IsNaN(x) /\ x[1] > 0

Column(ms, field) == [i \in 1..Len(ms) |-> ms[i][field]]

\* (df['home_goals'].sum() + df['away_goals'].sum()) / (len(df) * 2)
avg_goals(ms) ==
    Rat(SumInts(Column(ms, "home_goals")) + SumInts(Column(ms, "away_goals")),
        Len(ms) * 2)

\* set(df['home_team']).union(set(df['away_team']))
all_teams(ms) ==
    {ms[i].home_team : i \in 1..Len(ms)} \cup {ms[i].away_team : i \in 1..Len(ms)}

home_matches(ms, team) == SelectSeq(ms, LAMBDA m : m.home_team = team)
away_matches(ms, team) == SelectSeq(ms, LAMBDA m : m.away_team = team)

\* a team's step that skips the away scaling once the home scaling was
\* applied, so that the home scaling is kept
scale_attack_home_kept(att, def, ms, team, avg) ==
    LET hm == home_matches(ms, team)
        home_goals == SumInts(Column(hm, "home_goals"))
        expected_h == SumRats([i \in 1..Len(hm) |->
                          FMul(FMul(FMul(att[team], def[hm[i].away_team]),
                                    poisson_home_advantage), avg)])
        after_home == IF hm # <<>> /\ Positive(expected_h)
                      THEN FMul(att[team], FDiv(<<home_goals, 1>>, expected_h))
                      ELSE att[team]
        am == away_matches(ms, team)
        away_goals == SumInts(Column(am, "away_goals"))
        expected_a == SumRats([i \in 1..Len(am) |->
                          FMul(FMul(after_home, def[am[i].home_team]), avg)])
    IN  IF am # <<>> /\ Positive(expected_a) /\ after_home = att[team]
        THEN FMul(after_home, FDiv(<<away_goals, 1>>, expected_a))
        ELSE after_home

\* the body of `for team in all_teams` for one team: the attack coefficient of
\* the team after its home scaling and then its away scaling
scale_attack(att, def, ms, team, avg) ==
    LET hm == home_matches(ms, team)
        home_goals == SumInts(Column(hm, "home_goals"))
        expected_h == SumRats([i \in 1..Len(hm) |->
                          FMul(FMul(FMul(att[team], def[hm[i].away_team]),
                                    poisson_home_advantage), avg)])
        after_home == IF hm # <<>> /\ Positive(expected_h)
                      THEN FMul(att[team], FDiv(<<home_goals, 1>>, expected_h))
                      ELSE att[team]
        am == away_matches(ms, team)
        away_goals == SumInts(Column(am, "away_goals"))
        expected_a == SumRats([i \in 1..Len(am) |->
                          FMul(FMul(after_home, def[am[i].home_team]), avg)])
    IN  IF am # <<>> /\ Positive(expected_a)
        THEN FMul(after_home, FDiv(<<away_goals, 1>>, expected_a))
        ELSE after_home

\* sum(coef.values()) over the teams in S
RECURSIVE SumOver(_, _)
SumOver(coef, S) ==
    IF S = {} THEN RatZero
    ELSE LET t == CHOOSE t \in S : TRUE
             rest == SumOver(coef, S \ {t})
         IN  IF IsNaN(coef[t]) \/ IsNaN(rest) THEN NaN ELSE RatAdd(coef[t], rest)

\* coef[team] /= mean for every team
DivideAll(coef, mean) == [t \in DOMAIN coef |-> FDiv(coef[t], mean)]

\* mean = sum(coef.values()) / len(all_teams), then the division by the mean
normalise(coef) ==
    DivideAll(coef, FDiv(SumOver(coef, DOMAIN coef), <<Cardinality(DOMAIN coef), 1>>))

\* a pass that lowers every defence coefficient instead of leaving it alone
fit_pass_defense_rescaled(att, def, ms, avg) ==
    [attack |-> normalise([t \in DOMAIN att |-> scale_attack(att, def, ms, t, avg)]),
     defense |-> [t \in DOMAIN def |-> FMul(def[t], <<1, 2>>)]]

\* one pass of `for _ in range(5)`: every team is rescaled (a team's step
\* reads only its own attack and the defence map, which the loop never
\* writes), then both maps are normalised
fit_pass(att, def, ms, avg) ==
    [attack |-> normalise([t \in DOMAIN att |-> scale_attack(att, def, ms, t, avg)]),
     defense |-> normalise(def)]

RECURSIVE fit_iterate(_, _, _, _)
fit_iterate(coef, ms, avg, n) ==
    IF n = 0 THEN coef
    ELSE fit_iterate(fit_pass(coef.attack, coef.defense, ms, avg), ms, avg, n - 1)

\* the coefficient maps left by PoissonModel.fit on a non-empty batch
fit(ms) ==
    fit_iterate([attack |-> [t \in all_teams(ms) |-> RatOne],
                 defense |-> [t \in all_teams(ms) |-> RatOne]],
                ms, avg_goals(ms), NumIterations)

\* fit evaluated once for every batch the model offers
fit_table ==
    LET table == [ms \in PoissonLists \ {<<>>} |-> fit(ms)]
    IN  CHOOSE f \in {table} : f = table

(***************************************************************************)
(* Probabilities with nine decimal digits: a value v in [0, 1] is the      *)
(* integer v * ONE9, the float nan is NaN9.                                *)
(***************************************************************************)
Base9 == 10 ^ 3
ONE9 == Base9 * Base9 * Base9
NaN9 == -1

\* a * b for 0 <= a, b <= ONE9, rounded down
Mul9(a, b) ==
    LET a2 == a \div (Base9 * Base9)
        a1 == (a \div Base9) % Base9
        a0 == a % Base9
        b2 == b \div (Base9 * Base9)
        b1 == (b \div Base9) % Base9
        b0 == b % Base9
        lo == (a0 * b0) \div Base9
        m1 == (a1 * b0 + a0 * b1 + lo) \div Base9
        m2 == (a2 * b0 + a1 * b1 + a0 * b2 + m1) \div Base9
    IN  a2 * b2 * Base9 + a2 * b1 + a1 * b2 + m2

\* float product with nan propagation
FMul9(a, b) == IF a = NaN9 \/ b = NaN9 THEN NaN9 ELSE Mul9(a, b)

\* n / d with nine decimals for 0 <= n < d
Div9(n, d) == FixDivDigits(n % d, d, n \div d, 9)

\* the series 1 - x + x^2/2! - ... of exp(-x) for 0 <= x < 1
RECURSIVE ExpSeries(_, _, _, _)
ExpSeries(x, term, acc, k) ==
    IF k > 13 THEN acc
    ELSE LET next == Mul9(term, x) \div k
         IN  ExpSeries(x, next, IF k % 2 = 1 THEN acc - next ELSE acc + next, k + 1)

\* exp(-8 * x) = ((exp(-x)^2)^2)^2 for 0 <= x < 1
ExpNeg8(x) ==
    LET e1 == ExpSeries(x, ONE9, ONE9, 1)
        e2 == Mul9(e1, e1)
        e4 == Mul9(e2, e2)
    IN  Mul9(e4, e4)

\* pmf(0), ..., pmf(n) of the Poisson distribution with mean 8 * x, from
\* pmf(k) = pmf(k - 1) * mean / k
RECURSIVE PmfFrom(_, _, _)
PmfFrom(x, ps, n) ==
    IF Len(ps) > n THEN ps
    ELSE LET k == Len(ps)
             m == Mul9(ps[k], x)
         IN  PmfFrom(x, Append(ps, (m \div k) * 8 + ((m % k) * 8) \div k), n)

\* scipy.stats.poisson.pmf(k, mu) for k = 0..n as a sequence (pmf(k) at k + 1),
\* for a mean mu < 8: nan for a nan or negative mean; for mu = 0 the whole
\* mass is at 0
poisson_pmf(mu, n) ==
    IF IsNaN(mu) \/ mu[1] < 0 THEN [k \in 1..(n + 1) |-> NaN9]
    ELSE LET x == Div9(mu[1], 8 * mu[2])
         IN  PmfFrom(x, <<ExpNeg8(x)>>, n)

\* dict.get(team, 0.0): a missing coefficient read as zero
get_coefficient_zero(coef, team) ==
    IF team \in DOMAIN coef THEN coef[team] ELSE RatZero

\* self.team_attack.get(team, 1.0), self.team_defense.get(team, 1.0)
get_coefficient(coef, team) ==
    IF team \in DOMAIN coef THEN coef[team] ELSE RatOne

\* avg_goals = 2.75 in PoissonModel.predict_score
league_avg_goals == <<11, 4>>

\* PoissonModel.predict_score: <<home_expect, away_expect>>
predict_score(att, def, home_team, away_team) ==
    <<FDiv(FMul(FMul(FMul(get_coefficient(att, home_team),
                          get_coefficient(def, away_team)),
                     poisson_home_advantage), league_avg_goals), <<2, 1>>),
      FDiv(FMul(FMul(get_coefficient(att, away_team),
                     get_coefficient(def, home_team)),
                league_avg_goals), <<2, 1>>)>>

\* the <<home, away>> matchups offered to the predictions; TeamD is in no batch
PredictFixtures == {<<"TeamA", "TeamB">>, <<"TeamB", "TeamA">>, <<"TeamC", "TeamD">>}

\* the default of the parameter max_goals of predict_match_result
max_goals_default == 10

\* the value of a function as an explicit table
Tabulated(f) == CHOOSE g \in {f} : g = f

\* the indices <<i, j>> of the scoreline matrix: i home goals, j away goals
Cells(max_goals) == (0..max_goals) \X (0..max_goals)

\* position of a cell in result_probs.flatten(), the row-major enumeration
FlatIndex(c, max_goals) == c[1] * (max_goals + 1) + c[2]

\* result_probs[i, j] = pmf(i, home_expect) * pmf(j, away_expect)
result_probs(home_expect, away_expect, max_goals) ==
    LET home_pmf == poisson_pmf(home_expect, max_goals)
        away_pmf == poisson_pmf(away_expect, max_goals)
    IN  Tabulated([c \in Cells(max_goals) |->
                      FMul9(home_pmf[c[1] + 1], away_pmf[c[2] + 1])])

\* float sum with nan propagation
Add9(a, b) == IF a = NaN9 \/ b = NaN9 THEN NaN9 ELSE a + b

\* the cells of S in row i, from column j on, summed
RECURSIVE SumRow(_, _, _, _, _)
SumRow(probs, S, i, j, max_goals) ==
    IF j > max_goals THEN 0
    ELSE Add9(IF <<i, j>> \in S THEN probs[<<i, j>>] ELSE 0,
              SumRow(probs, S, i, j + 1, max_goals))

RECURSIVE SumRows(_, _, _, _)
SumRows(probs, S, i, max_goals) ==
    IF i > max_goals THEN 0
    ELSE Add9(SumRow(probs, S, i, 0, max_goals), SumRows(probs, S, i + 1, max_goals))

\* np.sum over the cells in S, nan as soon as one cell is nan
SumCells(probs, S, max_goals) == SumRows(probs, S, 0, max_goals)

\* 1 - x on floats
OneMinus9(x) == IF x = NaN9 THEN NaN9 ELSE ONE9 - x

MaxProb(probs, S) ==
    LET values == {probs[c] : c \in S}
    IN  CHOOSE v \in values : \A w \in values : w <= v

\* the cells of S that can take the next place of the ranking: the first and
\* the last, in row-major order, of the cells with the largest probability
NextPlaces(probs, S, max_goals) ==
    LET largest == MaxProb(probs, S)
        tied == {c \in S : probs[c] = largest}
    IN  {c \in tied : \/ \A e \in tied : FlatIndex(c, max_goals) <= FlatIndex(e, max_goals)
                      \/ \A e \in tied : FlatIndex(c, max_goals) >= FlatIndex(e, max_goals)}

\* np.argsort(result_probs.flatten())[::-1][:n] as cells: the default sort of
\* argsort is not stable, so the order among cells of equal probability is
\* whatever the build produces; every place may go to either end of a tie
RECURSIVE most_likely_orders(_, _, _, _)
most_likely_orders(probs, S, max_goals, n) ==
    IF n = 0 \/ S = {} THEN {<<>>}
    ELSE UNION {{<<c>> \o rest :
                    rest \in most_likely_orders(probs, S \ {c}, max_goals, n - 1)} :
                c \in NextPlaces(probs, S, max_goals)}

\* the goal totals below the thresholds 0.5, 1.5, 2.5, 3.5, 4.5: i + j < t + 0.5
ThresholdFloors == 0..4

\* PoissonModel.predict_match_result without most_likely_scores
match_result(probs, home_expect, away_expect, max_goals) ==
    LET all == Cells(max_goals)
        under == [t \in ThresholdFloors |->
                     SumCells(probs, {c \in all : c[1] + c[2] <= t}, max_goals)]
        btts_yes == SumCells(probs, {c \in all : c[1] >= 1 /\ c[2] >= 1}, max_goals)
    IN  [home_win |-> SumCells(probs, {c \in all : c[1] > c[2]}, max_goals),
         draw |-> SumCells(probs, {c \in all : c[1] = c[2]}, max_goals),
         away_win |-> SumCells(probs, {c \in all : c[1] < c[2]}, max_goals),
         expected_goals |-> <<home_expect, away_expect>>,
         under |-> under,
         over |-> [t \in ThresholdFloors |-> OneMinus9(under[t])],
         btts_yes |-> btts_yes,
         btts_no |-> OneMinus9(btts_yes)]

\* most_likely_scores: <<i, j, probability>> for each ranked cell
most_likely_scores(probs, order) ==
    [k \in 1..Len(order) |-> <<order[k][1], order[k][2], probs[order[k]]>>]

\* the values predict_match_result can return for a pair of expected goals
\* with the scoreline matrix probs: one for every order the ranking of the
\* scores can come out in
predict_match_result(probs, home_expect, away_expect, max_goals) ==
    LET result == match_result(probs, home_expect, away_expect, max_goals)
    IN  {[result |-> result, most_likely_scores |-> most_likely_scores(probs, order)] :
            order \in most_likely_orders(probs, Cells(max_goals), max_goals, 5)}

\* the batches fitted before a match result is predicted: every single match,
\* and every pair of a TeamA-TeamB match and a TeamB-TeamC match
PredictBatches ==
    {<<m>> : m \in PoissonRecords}
    \cup {<<m1, m2>> : m1 \in {m \in PoissonRecords : m.home_team = "TeamA"},
                       m2 \in {m \in PoissonRecords : m.home_team = "TeamB"}}

\* the pairs of expected goals predict_score returns after these fits
ExpectedGoals ==
    {predict_score(<<>>, <<>>, f[1], f[2]) : f \in PredictFixtures}
    \cup {predict_score(fit_table[ms].attack, fit_table[ms].defense, f[1], f[2]) :
             ms \in PredictBatches, f \in PredictFixtures}

\* the scoreline matrix with the default max_goals, evaluated once for every
\* pair of expected goals
result_probs_table ==
    Tabulated([e \in ExpectedGoals |-> result_probs(e[1], e[2], max_goals_default)])

\* predict_match_result with the default max_goals, evaluated once for every
\* pair of expected goals
predict_table ==
    Tabulated([e \in ExpectedGoals |->
                  predict_match_result(result_probs_table[e], e[1], e[2],
                                       max_goals_default)])

NoPoissonCall == [op |-> "none", matches |-> <<>>, outcome |-> "ok",
                  home |-> "", away |-> "", ret |-> <<>>]

PoissonInit ==
    /\ team_attack = <<>>
    /\ team_defense = <<>>
    /\ poisson_call = NoPoissonCall
    /\ n_fits = 0
    /\ fitted = <<>>

\* fit that updates the existing maps with dict.update instead of replacing
\* them: the teams of earlier batches keep their coefficients
FitIncremental(historical_matches) ==
    /\ n_fits < MaxFits
    /\ n_fits' = n_fits + 1
    /\ IF historical_matches = <<>>
       THEN /\ poisson_call' = [NoPoissonCall EXCEPT !.op = "fit",
                                                     !.outcome = "KeyError"]
            /\ UNCHANGED <<team_attack, team_defense, fitted>>
       ELSE /\ poisson_call' = [NoPoissonCall EXCEPT !.op = "fit",
                                                     !.matches = historical_matches]
            /\ fitted' = historical_matches
            /\ \E coef \in {fit_table[historical_matches]} :
                  /\ team_attack' = coef.attack @@ team_attack
                  /\ team_defense' = coef.defense @@ team_defense
    /\ UNCHANGED <<eloVars, valueVars, utilVars, xgVars,
                 marketVars, threadVars, readerVars, scanVars>>

\* PoissonModel.fit(historical_matches); pd.DataFrame([]) has no columns, so
\* df['home_goals'] raises KeyError before anything is assigned
Fit(historical_matches) ==
    /\ n_fits < MaxFits
    /\ n_fits' = n_fits + 1
    /\ IF historical_matches = <<>>
       THEN /\ poisson_call' = [NoPoissonCall EXCEPT !.op = "fit",
                                                     !.outcome = "KeyError"]
            /\ UNCHANGED <<team_attack, team_defense, fitted>>
       ELSE /\ poisson_call' = [NoPoissonCall EXCEPT !.op = "fit",
                                                     !.matches = historical_matches]
            /\ fitted' = historical_matches
            /\ \E coef \in {fit_table[historical_matches]} :
                  /\ team_attack' = coef.attack
                  /\ team_defense' = coef.defense
    /\ UNCHANGED <<eloVars, valueVars, utilVars, xgVars,
                 marketVars, threadVars, readerVars, scanVars>>

\* PoissonModel.predict_score(home_team, away_team)
PredictScore(home_team, away_team) ==
    /\ poisson_call' = [NoPoissonCall EXCEPT
                           !.op = "predict_score", !.home = home_team,
                           !.away = away_team,
                           !.ret = predict_score(team_attack, team_defense,
                                                 home_team, away_team)]
    /\ UNCHANGED <<team_attack, team_defense, n_fits, fitted>>
    /\ UNCHANGED <<eloVars, valueVars, utilVars, xgVars,
                 marketVars, threadVars, readerVars, scanVars>>

\* PoissonModel.predict_match_result(home_team, away_team) with the default
\* max_goals
PredictMatchResult(home_team, away_team) ==
    /\ \E ret \in LET expect == predict_score(team_attack, team_defense,
                                               home_team, away_team)
                   IN  IF expect \in ExpectedGoals THEN predict_table[expect]
                       ELSE predict_match_result(
                               result_probs(expect[1], expect[2], max_goals_default),
                               expect[1], expect[2], max_goals_default) :
          poisson_call' = [NoPoissonCall EXCEPT
                              !.op = "predict_match_result", !.home = home_team,
                              !.away = away_team, !.ret = ret]
    /\ UNCHANGED <<team_attack, team_defense, n_fits, fitted>>
    /\ UNCHANGED <<eloVars, valueVars, utilVars, xgVars,
                 marketVars, threadVars, readerVars, scanVars>>

(***************************************************************************)
(* ValueBetAnalyzer                                                        *)
(***************************************************************************)
\* decimal odds in quarter steps from -1.0, probabilities in equal steps of [0, 1]
OddsValues == {Rat(k, 4) : k \in -4..MaxOddsQ}
Probabilities == {Rat(k, ProbSteps) : k \in 0..ProbSteps}

NoValueCall == [op |-> "none", odds |-> RatZero, probability |-> RatZero,
                outcome |-> "ok", ret |-> RatZero]

\* ValueBetAnalyzer.implied_probability: 1 / odds
implied_probability(odds) ==
    IF odds[1] = 0 THEN [outcome |-> "ZeroDivisionError", ret |-> RatZero]
    ELSE [outcome |-> "ok", ret |-> RatDiv(RatOne, odds)]

\* calculate_value with the odds as divisor: (model_probability / odds) - 1
calculate_value_divided(model_probability, bookmaker_odds) ==
    IF implied_probability(bookmaker_odds).outcome # "ok"
    THEN implied_probability(bookmaker_odds)
    ELSE [outcome |-> "ok",
          ret |-> RatSub(RatDiv(model_probability, bookmaker_odds), RatOne)]

\* ValueBetAnalyzer.calculate_value: the exception of implied_probability
\* propagates, otherwise (model_probability * bookmaker_odds) - 1
calculate_value(model_probability, bookmaker_odds) ==
    IF implied_probability(bookmaker_odds).outcome # "ok"
    THEN implied_probability(bookmaker_odds)
    ELSE [outcome |-> "ok",
          ret |-> RatSub(RatMul(model_probability, bookmaker_odds), RatOne)]

ValueInit == vb_call = NoValueCall

ImpliedProbability(odds) ==
    /\ vb_call' = [NoValueCall EXCEPT !.op = "implied_probability", !.odds = odds,
                       !.outcome = implied_probability(odds).outcome,
                       !.ret = implied_probability(odds).ret]
    /\ UNCHANGED <<eloVars, poissonVars, utilVars, xgVars,
                 marketVars, threadVars, readerVars, scanVars>>

CalculateValue(model_probability, bookmaker_odds) ==
    /\ vb_call' = [NoValueCall EXCEPT !.op = "calculate_value",
                       !.odds = bookmaker_odds, !.probability = model_probability,
                       !.outcome = calculate_value(model_probability, bookmaker_odds).outcome,
                       !.ret = calculate_value(model_probability, bookmaker_odds).ret]
    /\ UNCHANGED <<eloVars, poissonVars, utilVars, xgVars,
                 marketVars, threadVars, readerVars, scanVars>>

(***************************************************************************)
(* ValueBetAnalyzer: market analysis                                       *)
(***************************************************************************)
\* min_value_threshold = 0.05, the default of ValueBetAnalyzer.__init__
min_value_threshold == <<1, 20>>

\* the three outcomes in the order analyze_1x2_market handles them
OutcomeKeys == <<"home_win", "draw", "away_win">>

\* model probabilities and decimal odds offered to the market analysers:
\* 0.5 * 2.1 - 1 and 0.25 * 4.2 - 1 are exactly the threshold
MarketProbabilities == {RatZero, <<1, 4>>, <<1, 2>>}
MarketOdds == {RatZero, <<21, 10>>, <<4, 1>>, <<21, 5>>}

\* a dict with keys among K and values in V
Dicts(K, V) == UNION {[S -> V] : S \in SUBSET K}

Range(xs) == {xs[i] : i \in 1..Len(xs)}

\* the inputs of analyze_1x2_market
Predictions1x2 == Dicts(Range(OutcomeKeys), MarketProbabilities)
Odds1x2 == Dicts(Range(OutcomeKeys), MarketOdds)

NoMarketCall == [op |-> "none", prediction |-> <<>>, odds |-> <<>>,
                 fixtures |-> <<>>, outcome |-> "ok", ret |-> <<>>]

\* the comparison with the threshold as value >= threshold
exceeds_threshold_inclusive(value) == ~RatLess(value, min_value_threshold)

\* value > self.min_value_threshold
exceeds_threshold(value) == RatLess(min_value_threshold, value)

\* the entry the analysers store for one market
market_entry(model_prob, odds) ==
    [model_probability |-> model_prob,
     implied_probability |-> implied_probability(odds).ret,
     odds |-> odds,
     value |-> calculate_value(model_prob, odds).ret,
     is_value_bet |-> exceeds_threshold(calculate_value(model_prob, odds).ret)]

\* the exception raised while the value of one outcome is computed:
\* match_prediction[market], bookmaker_odds[market], then calculate_value
value_outcome(match_prediction, bookmaker_odds, market) ==
    IF market \notin DOMAIN match_prediction \/ market \notin DOMAIN bookmaker_odds
    THEN "KeyError"
    ELSE calculate_value(match_prediction[market], bookmaker_odds[market]).outcome

\* the first exception in the order home_win, draw, away_win, "ok" if none
RECURSIVE first_outcome(_, _, _)
first_outcome(match_prediction, bookmaker_odds, markets) ==
    IF markets = <<>> THEN "ok"
    ELSE IF value_outcome(match_prediction, bookmaker_odds, Head(markets)) # "ok"
         THEN value_outcome(match_prediction, bookmaker_odds, Head(markets))
         ELSE first_outcome(match_prediction, bookmaker_odds, Tail(markets))

\* ValueBetAnalyzer.analyze_1x2_market
analyze_1x2_market(match_prediction, bookmaker_odds) ==
    LET home_value == calculate_value(match_prediction["home_win"],
                                      bookmaker_odds["home_win"]).ret
        draw_value == calculate_value(match_prediction["draw"],
                                      bookmaker_odds["draw"]).ret
        away_value == calculate_value(match_prediction["away_win"],
                                      bookmaker_odds["away_win"]).ret
        best_value == RatMax(RatMax(home_value, draw_value), away_value)
    IN  IF first_outcome(match_prediction, bookmaker_odds, OutcomeKeys) # "ok"
        THEN [outcome |-> first_outcome(match_prediction, bookmaker_odds, OutcomeKeys),
              ret |-> <<>>]
        ELSE [outcome |-> "ok",
              ret |-> [entries |-> [m \in Range(OutcomeKeys) |->
                                      market_entry(match_prediction[m],
                                                   bookmaker_odds[m])],
                       best_value_bet |-> IF best_value = home_value THEN "home_win"
                                          ELSE IF best_value = draw_value THEN "draw"
                                          ELSE "away_win",
                       has_value_bet |-> exceeds_threshold(best_value)]]

MarketInit == market_call = NoMarketCall

\* The analyser keeps nothing of a call but its threshold, so a result
\* depends on the arguments alone: each call starts from the state in which
\* the caller holds no result.
Analyze1x2Market(match_prediction, bookmaker_odds) ==
    /\ market_call.op = "none"
    /\ market_call' = [NoMarketCall EXCEPT
                         !.op = "analyze_1x2_market",
                         !.prediction = match_prediction,
                         !.odds = bookmaker_odds,
                         !.outcome = analyze_1x2_market(match_prediction,
                                                        bookmaker_odds).outcome,
                         !.ret = analyze_1x2_market(match_prediction,
                                                    bookmaker_odds).ret]
    /\ UNCHANGED <<eloVars, poissonVars, valueVars, utilVars, xgVars, threadVars, readerVars, scanVars>>

\* over/under markets
OverUnderKeys == {"over_2.5", "under_2.5", "over_3.5"}

\* the sequences without repetition over S: the key orders of a dict
Orders(S) ==
    {ks \in UNION {[1..n -> S] : n \in 0..Cardinality(S)} :
        \A i, j \in 1..Len(ks) : i # j => ks[i] # ks[j]}

\* a model-probability dict in its insertion order, as the sequence of its
\* <<market, probability>> items
OverUnderPredictions ==
    UNION {[1..Len(ks) -> MarketProbabilities] \X {ks} : ks \in Orders(OverUnderKeys)}

OverUnderOddsDicts == Dicts(OverUnderKeys, MarketOdds)

\* the test for a new best market as value >= best_value
is_new_best_inclusive(value, best_value) == ~RatLess(value, best_value)

\* value > best_value
is_new_best(value, best_value) == RatLess(best_value, value)

\* the loop of analyze_over_under_market from item i on; acc holds result,
\* best_value and best_value_bet, and the exception that ended the loop
RECURSIVE over_under_loop(_, _, _, _, _)
over_under_loop(probs, markets, bookmaker_odds, i, acc) ==
    IF i > Len(markets) \/ acc.outcome # "ok" THEN acc
    ELSE IF markets[i] \notin DOMAIN bookmaker_odds
    THEN over_under_loop(probs, markets, bookmaker_odds, i + 1, acc)
    ELSE LET value == calculate_value(probs[i], bookmaker_odds[markets[i]])
         IN  over_under_loop(probs, markets, bookmaker_odds, i + 1,
               IF value.outcome # "ok" THEN [acc EXCEPT !.outcome = value.outcome]
               ELSE [outcome |-> "ok",
                     entries |-> Store(acc.entries, markets[i],
                                       market_entry(probs[i],
                                                    bookmaker_odds[markets[i]])),
                     best_value |-> IF is_new_best(value.ret, acc.best_value)
                                    THEN value.ret ELSE acc.best_value,
                     best_value_bet |-> IF is_new_best(value.ret, acc.best_value)
                                        THEN markets[i] ELSE acc.best_value_bet])

\* ValueBetAnalyzer.analyze_over_under_market; match_prediction is the pair
\* <<probabilities, markets>> of a dict in insertion order
analyze_over_under_market(match_prediction, bookmaker_odds) ==
    LET acc == over_under_loop(match_prediction[1], match_prediction[2],
                               bookmaker_odds, 1,
                               [outcome |-> "ok", entries |-> <<>>,
                                best_value |-> <<-1, 1>>,
                                best_value_bet |-> "None"])
    IN  IF acc.outcome # "ok" THEN [outcome |-> acc.outcome, ret |-> <<>>]
        ELSE [outcome |-> "ok",
              ret |-> [entries |-> acc.entries,
                       best_value_bet |-> acc.best_value_bet,
                       has_value_bet |-> exceeds_threshold(acc.best_value)]]

AnalyzeOverUnderMarket(match_prediction, bookmaker_odds) ==
    /\ market_call.op = "none"
    /\ market_call' = [NoMarketCall EXCEPT
                         !.op = "analyze_over_under_market",
                         !.prediction = match_prediction,
                         !.odds = bookmaker_odds,
                         !.outcome = analyze_over_under_market(match_prediction,
                                                               bookmaker_odds).outcome,
                         !.ret = analyze_over_under_market(match_prediction,
                                                           bookmaker_odds).ret]
    /\ UNCHANGED <<eloVars, poissonVars, valueVars, utilVars, xgVars, threadVars, readerVars, scanVars>>

\* dict.get(key) with None as the default
fixture_get(fixture, key) ==
    IF key \in DOMAIN fixture THEN fixture[key] ELSE "None"

\* the 1X2 inputs a fixture may carry: none, one of the two dicts, or both
\* with odds that give home_win a value of 0.10, of exactly 0.05, or that
\* lack the draw
Fixture1x2Parts ==
    LET model == [home_win |-> <<1, 2>>, draw |-> <<1, 4>>, away_win |-> <<1, 4>>]
        odds(home) == [home_win |-> home, draw |-> <<17, 5>>, away_win |-> <<4, 1>>]
    IN  {<<>>,
         [model_1x2 |-> model],
         [odds_1x2 |-> odds(<<11, 5>>)],
         [model_1x2 |-> model, odds_1x2 |-> odds(<<11, 5>>)],
         [model_1x2 |-> model, odds_1x2 |-> odds(<<21, 10>>)],
         [model_1x2 |-> model,
          odds_1x2 |-> [home_win |-> <<11, 5>>, away_win |-> <<4, 1>>]]}

\* the over/under inputs a fixture may carry: none, the model dict alone, or
\* both with odds that give over_2.5 a value of 1.1 or of exactly 0.05
FixtureOverUnderParts ==
    LET model == <<<<<<1, 2>>, <<1, 2>>>>, <<"over_2.5", "under_2.5">>>>
    IN  {<<>>,
         [model_over_under |-> model],
         [model_over_under |-> model,
          odds_over_under |-> [m \in {"over_2.5"} |-> <<21, 5>>]],
         [model_over_under |-> model,
          odds_over_under |-> [m \in {"over_2.5"} |-> <<21, 10>>]]}

\* the fixture dicts with a given id
FixtureDicts(id) ==
    {[k \in {"id"} |-> id] @@ a @@ b :
        a \in Fixture1x2Parts, b \in FixtureOverUnderParts}

\* the fixture lists of up to MaxFixtures fixtures, numbered by their place
FixtureLists ==
    UNION {{fs \in [1..n -> UNION {FixtureDicts(i) : i \in 1..n}] :
              \A i \in 1..n : fs[i]["id"] = i} : n \in 0..MaxFixtures}

\* value_analysis['markets'] of one fixture; an exception of an analyser
\* ends the call of find_value_bets
fixture_markets(fixture) ==
    LET has_1x2 == {"model_1x2", "odds_1x2"} \subseteq DOMAIN fixture
        has_ou  == {"model_over_under", "odds_over_under"} \subseteq DOMAIN fixture
        m_1x2   == analyze_1x2_market(fixture["model_1x2"], fixture["odds_1x2"])
        m_ou    == analyze_over_under_market(fixture["model_over_under"],
                                             fixture["odds_over_under"])
    IN  IF has_1x2 /\ m_1x2.outcome # "ok"
        THEN [outcome |-> m_1x2.outcome, markets |-> <<>>]
        ELSE IF has_ou /\ m_ou.outcome # "ok"
        THEN [outcome |-> m_ou.outcome, markets |-> <<>>]
        ELSE [outcome |-> "ok",
              markets |-> [k \in (IF has_1x2 THEN {"1x2"} ELSE {})
                                   \cup (IF has_ou THEN {"over_under"} ELSE {})
                             |-> IF k = "1x2" THEN m_1x2.ret ELSE m_ou.ret]]

\* the retention test with all() in the place of any()
any_has_value_bet_all(markets) ==
    \A k \in DOMAIN markets : markets[k].has_value_bet

\* any(market.get('has_value_bet', False) for market in markets.values())
any_has_value_bet(markets) ==
    \E k \in DOMAIN markets : markets[k].has_value_bet

\* the loop of find_value_bets from fixture i on
RECURSIVE find_value_bets_loop(_, _, _)
find_value_bets_loop(fixtures, i, value_bets) ==
    IF i > Len(fixtures) THEN [outcome |-> "ok", ret |-> value_bets]
    ELSE IF fixture_markets(fixtures[i]).outcome # "ok"
    THEN [outcome |-> fixture_markets(fixtures[i]).outcome, ret |-> <<>>]
    ELSE find_value_bets_loop(fixtures, i + 1,
           IF any_has_value_bet(fixture_markets(fixtures[i]).markets)
           THEN Append(value_bets,
                       [fixture_id |-> fixture_get(fixtures[i], "id"),
                        home_team |-> fixture_get(fixtures[i], "home_team"),
                        away_team |-> fixture_get(fixtures[i], "away_team"),
                        league |-> fixture_get(fixtures[i], "league"),
                        match_date |-> fixture_get(fixtures[i], "match_date"),
                        markets |-> fixture_markets(fixtures[i]).markets,
                        has_value_bet |-> TRUE])
           ELSE value_bets)

\* ValueBetAnalyzer.find_value_bets
find_value_bets(fixtures) == find_value_bets_loop(fixtures, 1, <<>>)

FindValueBets(fixtures) ==
    /\ market_call.op = "none"
    /\ market_call' = [NoMarketCall EXCEPT
                         !.op = "find_value_bets",
                         !.fixtures = fixtures,
                         !.outcome = find_value_bets(fixtures).outcome,
                         !.ret = find_value_bets(fixtures).ret]
    /\ UNCHANGED <<eloVars, poissonVars, valueVars, utilVars, xgVars, threadVars, readerVars, scanVars>>

\* the caller lets go of the returned dict (or of the exception)
MarketReturn ==
    /\ market_call.op # "none"
    /\ market_call' = NoMarketCall
    /\ UNCHANGED <<eloVars, poissonVars, valueVars, utilVars, xgVars, threadVars, readerVars, scanVars>>

(***************************************************************************)
(* utils.poisson_probability                                               *)
(***************************************************************************)
\* means in quarter steps from 0, counts from -1
Means == {Rat(q, 4) : q \in 0..MaxMeanQ}
Counts == -1..MaxK

NoUtilCall == [op |-> "none", mean |-> RatZero, k |-> 0, outcome |-> "ok", ret |-> 0]

\* poisson_probability taken through logarithms, exp(k * log(mean) - mean) /
\* k!: math.log(0) raises
poisson_probability_log(mean, k) ==
    IF mean[1] = 0 THEN [outcome |-> "ValueError", ret |-> 0]
    ELSE IF k < 0 THEN [outcome |-> "ValueError", ret |-> 0]
    ELSE [outcome |-> "ok", ret |-> poisson_pmf(mean, k)[k + 1]]

\* (math.exp(-mean) * mean ** k) / math.factorial(k) for a mean in [0, 8):
\* mean ** k raises ZeroDivisionError for mean = 0 and k < 0, factorial raises
\* ValueError for k < 0; otherwise exp(-mean) times the k factors mean / i,
\* and mean ** 0 = 1 also for mean = 0
poisson_probability(mean, k) ==
    IF k < 0 /\ mean[1] = 0 THEN [outcome |-> "ZeroDivisionError", ret |-> 0]
    ELSE IF k < 0 THEN [outcome |-> "ValueError", ret |-> 0]
    ELSE [outcome |-> "ok", ret |-> poisson_pmf(mean, k)[k + 1]]

UtilInit == util_call = NoUtilCall

PoissonProbability(mean, k) ==
    /\ util_call' = [op |-> "poisson_probability", mean |-> mean, k |-> k,
                     outcome |-> poisson_probability(mean, k).outcome,
                     ret |-> poisson_probability(mean, k).ret]
    /\ UNCHANGED <<eloVars, poissonVars, valueVars, xgVars, marketVars, threadVars, readerVars, scanVars>>

(***************************************************************************)
(* XGModel                                                                 *)
(***************************************************************************)
\* a shot is a dict: a function from the keys it has to their values
Distances == {0, 6, 18, 30, 45}
Angles == {-135, -45, 0, 60, 90}

Shots ==
    {[distance |-> d, angle |-> a, is_big_chance |-> b, is_header |-> h] :
        d \in Distances, a \in Angles, b \in {0, 1}, h \in {0, 1}}
    \cup {[is_header |-> h] : h \in {0, 1}}

\* the labelled shots handed to train
TrainingShots ==
    {[distance |-> 6, angle |-> 0, is_goal |-> 1],
     [distance |-> 30, angle |-> 60, is_goal |-> 0],
     [distance |-> 18, angle |-> 0]}

TrainingLists == UNION {[1..n -> TrainingShots] : n \in 0..MaxShots}

\* shot_data.get(key, default)
shot_get(shot_data, key, default) ==
    IF key \in DOMAIN shot_data THEN shot_data[key] ELSE default

\* base_xg + big_chance_bonus - header_penalty returned without the clamp
simple_xg_unclamped(shot_data) ==
    LET distance == shot_get(shot_data, "distance", 18)
        angle == shot_get(shot_data, "angle", 45)
        distance_factor == RatMax(RatZero, RatSub(RatOne, Rat(distance, 30)))
        angle_factor == RatSub(RatOne, Rat(Abs(angle), 90))
    IN  RatSub(RatAdd(RatMul(distance_factor, angle_factor),
                      IF shot_get(shot_data, "is_big_chance", 0) # 0
                      THEN <<3, 10>> ELSE RatZero),
               IF shot_get(shot_data, "is_header", 0) # 0 THEN <<1, 5>> ELSE RatZero)

\* XGModel._simple_xg_estimation
simple_xg_estimation(shot_data) ==
    LET distance == shot_get(shot_data, "distance", 18)
        angle == shot_get(shot_data, "angle", 45)
        is_big_chance == shot_get(shot_data, "is_big_chance", 0)
        is_header == shot_get(shot_data, "is_header", 0)
        distance_factor == RatMax(RatZero, RatSub(RatOne, Rat(distance, 30)))
        max_angle == 90
        angle_factor == RatSub(RatOne, Rat(Abs(angle), max_angle))
        big_chance_bonus == IF is_big_chance # 0 THEN <<3, 10>> ELSE RatZero
        header_penalty == IF is_header # 0 THEN <<1, 5>> ELSE RatZero
        base_xg == RatMul(distance_factor, angle_factor)
        xg == RatSub(RatAdd(base_xg, big_chance_bonus), header_penalty)
    IN  RatMax(RatZero, RatMin(RatOne, xg))

\* the labels of a training list: shot.get('is_goal', 0)
goal_labels(shots_data) ==
    {shot_get(shots_data[i], "is_goal", 0) : i \in 1..Len(shots_data)}

\* the values predict_proba(features)[0][1] of a fitted forest can take
ForestOutputs == {RatZero, <<1, 2>>, RatOne}

NoXGCall == [op |-> "none", shots |-> <<>>, path |-> "", outcome |-> "ok",
             ret |-> RatZero]

XGInit ==
    /\ is_trained = FALSE
    /\ model_classes = {}
    /\ xg_call = NoXGCall

\* train that sets the flag whatever the list holds
TrainAlways(shots_data) ==
    /\ is_trained' = TRUE
    /\ model_classes' = IF Len(shots_data) > 0 THEN goal_labels(shots_data)
                        ELSE model_classes
    /\ xg_call' = [NoXGCall EXCEPT !.op = "train", !.shots = shots_data]
    /\ UNCHANGED <<eloVars, poissonVars, valueVars, utilVars, marketVars, threadVars, readerVars, scanVars>>

\* XGModel.train(shots_data)
Train(shots_data) ==
    /\ IF Len(shots_data) > 0
       THEN /\ model_classes' = goal_labels(shots_data)
            /\ is_trained' = TRUE
       ELSE UNCHANGED <<is_trained, model_classes>>
    /\ xg_call' = [NoXGCall EXCEPT !.op = "train", !.shots = shots_data]
    /\ UNCHANGED <<eloVars, poissonVars, valueVars, utilVars, marketVars, threadVars, readerVars, scanVars>>

\* XGModel.predict_xg(shot_data): the heuristic when the flag is unset,
\* otherwise column 1 of predict_proba, which does not exist when the forest
\* was fitted on one label only
PredictXG(shot_data) ==
    /\ IF ~is_trained
       THEN xg_call' = [NoXGCall EXCEPT !.op = "predict_xg", !.shots = <<shot_data>>,
                                        !.path = "heuristic",
                                        !.ret = simple_xg_estimation(shot_data)]
       ELSE IF Cardinality(model_classes) < 2
       THEN xg_call' = [NoXGCall EXCEPT !.op = "predict_xg", !.shots = <<shot_data>>,
                                        !.path = "model", !.outcome = "IndexError"]
       ELSE \E proba \in ForestOutputs :
               xg_call' = [NoXGCall EXCEPT !.op = "predict_xg",
                                           !.shots = <<shot_data>>,
                                           !.path = "model", !.ret = proba]
    /\ UNCHANGED <<is_trained, model_classes>>
    /\ UNCHANGED <<eloVars, poissonVars, valueVars, utilVars, marketVars, threadVars, readerVars, scanVars>>

(***************************************************************************)
(* The read-only operations called from two reader threads on the shared   *)
(* EloRating and PoissonModel instances and on dicts their callers pass.   *)
(* A reader may be switched between any two reads.                         *)
(***************************************************************************)
Readers == {1, 2}

ReaderFixtures == {<<"TeamA", "TeamB">>, <<"TeamC", "TeamD">>}

\* fixture lists the readers pass to find_value_bets: two fixtures that carry
\* the inputs of both markets
ReaderFixtureLists ==
    {fs \in [1..2 -> FixtureDicts(1) \cup FixtureDicts(2)] :
        /\ \A i \in 1..2 :
              /\ fs[i]["id"] = i
              /\ DOMAIN fs[i] = {"id", "model_1x2", "odds_1x2",
                                 "model_over_under", "odds_over_under"}
        /\ fs[1]["odds_1x2"]["home_win"] = <<21, 10>>
        /\ fs[1]["odds_over_under"]["over_2.5"] = <<21, 10>>
        /\ DOMAIN fs[2]["odds_1x2"] = Range(OutcomeKeys)
        /\ fs[2]["odds_over_under"]["over_2.5"] = <<21, 5>>}

\* the calls <<operation, arguments>> the readers make
ReaderCalls ==
    {<<"get_rating", <<t>>>> : t \in {"TeamA", "TeamC"}}
    \cup {<<"calculate_expected_score", <<"TeamA", "TeamB", h>>>> : h \in BOOLEAN}
    \cup {<<op, f>> : op \in {"predict_match", "predict_score",
                              "predict_match_result"}, f \in ReaderFixtures}
    \cup {<<"analyze_1x2_market", <<f["model_1x2"], f["odds_1x2"]>>>> :
             f \in {g \in Fixture1x2Parts :
                      /\ DOMAIN g = {"model_1x2", "odds_1x2"}
                      /\ g["odds_1x2"]["home_win"] = <<11, 5>>}}
    \cup {<<"analyze_over_under_market",
            <<f["model_over_under"], f["odds_over_under"]>>>> :
             f \in {g \in FixtureOverUnderParts :
                      DOMAIN g = {"model_over_under", "odds_over_under"}}}
    \cup {<<"find_value_bets", <<fs>>>> : fs \in ReaderFixtureLists}

IdleReader == [phase |-> "idle", op |-> "none", args |-> <<>>, reads |-> <<>>,
               outcome |-> "ok", ret |-> <<>>]

\* the reads of one call in program order, each <<object read, key>>:
\* self.ratings (elo_rating.py:32 under 46-47, 133-134), self.team_attack and
\* self.team_defense (poisson_model.py:93-94, 100-101), the dicts passed to
\* the analysers (value_bet_service.py:64-79, 138-141) and the fixture list
\* (176)
reader_locations(op, args) ==
    CASE op = "get_rating" -> <<<<"ratings", args[1]>>>>
      [] op = "calculate_expected_score" ->
           <<<<"ratings", args[1]>>, <<"ratings", args[2]>>>>
      [] op = "predict_match" ->
           <<<<"ratings", args[1]>>, <<"ratings", args[2]>>,
             <<"ratings", args[1]>>, <<"ratings", args[2]>>>>
      [] op \in {"predict_score", "predict_match_result"} ->
           <<<<"team_attack", args[1]>>, <<"team_defense", args[2]>>,
             <<"team_attack", args[2]>>, <<"team_defense", args[1]>>>>
      [] op = "analyze_1x2_market" ->
           [i \in 1..(2 * Len(OutcomeKeys)) |->
               <<IF i % 2 = 1 THEN "prediction" ELSE "odds",
                 OutcomeKeys[(i + 1) \div 2]>>]
      [] op = "analyze_over_under_market" ->
           [i \in 1..(2 * Len(args[1][2])) |->
               IF i % 2 = 1 THEN <<"item", (i + 1) \div 2>>
               ELSE <<"odds", args[1][2][i \div 2]>>]
      [] op = "find_value_bets" ->
           [i \in 1..Len(args[1]) |-> <<"fixture", i>>]

\* the value a read fetches, <<value>>, or <<>> for a key the dict lacks
reader_fetch(r, att, def, args, loc) ==
    CASE loc[1] = "ratings" -> <<get_rating(r, loc[2])>>
      [] loc[1] = "team_attack" -> <<get_coefficient(att, loc[2])>>
      [] loc[1] = "team_defense" -> <<get_coefficient(def, loc[2])>>
      [] loc[1] = "prediction" ->
           IF loc[2] \in DOMAIN args[1] THEN <<args[1][loc[2]]>> ELSE <<>>
      [] loc[1] = "odds" ->
           IF loc[2] \in DOMAIN args[2] THEN <<args[2][loc[2]]>> ELSE <<>>
      [] loc[1] = "item" -> <<args[1][1][loc[2]]>>
      [] loc[1] = "fixture" -> <<args[1][loc[2]]>>

\* the call has nothing left to read: every location is read, or a read of
\* analyze_1x2_market found its key missing (KeyError)
reader_done(op, args, reads) ==
    \/ Len(reads) = Len(reader_locations(op, args))
    \/ op = "analyze_1x2_market" /\ \E i \in 1..Len(reads) : reads[i] = <<>>

\* the dict of the keys in K rebuilt from the reads of the call
read_dict(op, args, reads, object, K) ==
    LET at(k) == CHOOSE i \in 1..Len(reads) :
                    reader_locations(op, args)[i] = <<object, k>>
    IN  [k \in {k \in K : \E i \in 1..Len(reads) :
                             /\ reader_locations(op, args)[i] = <<object, k>>
                             /\ reads[i] # <<>>} |-> reads[at(k)][1]]

\* the results the call may return, computed from the values it has read
reader_results(op, args, reads) ==
    CASE op = "get_rating" -> {[outcome |-> "ok", ret |-> reads[1][1]]}
      [] op = "calculate_expected_score" ->
           {[outcome |-> "ok",
             ret |-> Logistic(reads[1][1]
                                + (IF args[3] THEN home_advantage ELSE 0),
                              reads[2][1])]}
      [] op = "predict_match" ->
           {[outcome |-> "ok",
             ret |-> [predict_match((args[1] :> reads[1][1])
                                      @@ (args[2] :> reads[2][1]),
                                    args[1], args[2])
                        EXCEPT ![4] = reads[3][1], ![5] = reads[4][1]]]}
      [] op = "predict_score" ->
           {[outcome |-> "ok",
             ret |-> predict_score((args[1] :> reads[1][1]) @@ (args[2] :> reads[3][1]),
                                   (args[2] :> reads[2][1]) @@ (args[1] :> reads[4][1]),
                                   args[1], args[2])]}
      [] op = "predict_match_result" ->
           LET expect ==
                 predict_score((args[1] :> reads[1][1]) @@ (args[2] :> reads[3][1]),
                               (args[2] :> reads[2][1]) @@ (args[1] :> reads[4][1]),
                               args[1], args[2])
           IN  {[outcome |-> "ok", ret |-> ret] :
                  ret \in IF expect \in ExpectedGoals THEN predict_table[expect]
                          ELSE predict_match_result(
                                  result_probs(expect[1], expect[2],
                                               max_goals_default),
                                  expect[1], expect[2], max_goals_default)}
      [] op = "analyze_1x2_market" ->
           {analyze_1x2_market(
               read_dict(op, args, reads, "prediction", Range(OutcomeKeys)),
               read_dict(op, args, reads, "odds", Range(OutcomeKeys)))}
      [] op = "analyze_over_under_market" ->
           {analyze_over_under_market(
               <<[i \in 1..Len(args[1][2]) |-> reads[2 * i - 1][1]], args[1][2]>>,
               read_dict(op, args, reads, "odds", Range(args[1][2])))}
      [] op = "find_value_bets" ->
           {find_value_bets([i \in 1..Len(reads) |-> reads[i][1]])}

\* the batch fitted before the readers run: TeamA against TeamB, 1:0
ReaderBatches ==
    {ms \in PredictBatches :
        /\ Len(ms) = 1
        /\ ms[1].home_team = "TeamA"
        /\ ms[1].home_goals = 1
        /\ ms[1].away_goals = 0}

NoReaderInFlight == \A t \in Readers : readers[t].phase # "reading"

ReaderInit == readers = [t \in Readers |-> IdleReader]

\* reader t enters a read-only operation
ReaderCall(t, op, args) ==
    /\ readers[t].phase # "reading"
    /\ readers' = [readers EXCEPT ![t] = [IdleReader EXCEPT
                      !.phase = "reading", !.op = op, !.args = args]]
    /\ UNCHANGED <<eloVars, poissonVars, valueVars, utilVars, xgVars, marketVars,
                   threadVars, scanVars>>

\* a read of the rating map written with dict.setdefault
ReaderReadSetDefault(t) ==
    /\ readers[t].phase = "reading"
    /\ ~reader_done(readers[t].op, readers[t].args, readers[t].reads)
    /\ LET loc == reader_locations(readers[t].op,
                                   readers[t].args)[Len(readers[t].reads) + 1]
       IN  /\ readers' = [readers EXCEPT ![t].reads =
                            Append(@, reader_fetch(ratings, team_attack,
                                                   team_defense,
                                                   readers[t].args, loc))]
           /\ ratings' = IF loc[1] = "ratings" /\ loc[2] \notin DOMAIN ratings
                         THEN Store(ratings, loc[2], default_rating)
                         ELSE ratings
    /\ UNCHANGED <<k_factor, elo_call, played, n_calls, bulk_matches, bulk_i,
                   bulk_ratings0>>
    /\ UNCHANGED <<poissonVars, valueVars, utilVars, xgVars, marketVars,
                   threadVars, scanVars>>

\* the next read of the call of reader t
ReaderRead(t) ==
    /\ readers[t].phase = "reading"
    /\ ~reader_done(readers[t].op, readers[t].args, readers[t].reads)
    /\ LET loc == reader_locations(readers[t].op,
                                   readers[t].args)[Len(readers[t].reads) + 1]
       IN  /\ readers' = [readers EXCEPT ![t].reads =
                            Append(@, reader_fetch(ratings, team_attack,
                                                   team_defense,
                                                   readers[t].args, loc))]
           /\ ratings' = ratings
    /\ UNCHANGED <<k_factor, elo_call, played, n_calls, bulk_matches, bulk_i,
                   bulk_ratings0>>
    /\ UNCHANGED <<poissonVars, valueVars, utilVars, xgVars, marketVars,
                   threadVars, scanVars>>

\* the call of reader t computes its result from what it read and returns
ReaderReturn(t) ==
    /\ readers[t].phase = "reading"
    /\ reader_done(readers[t].op, readers[t].args, readers[t].reads)
    /\ \E res \in reader_results(readers[t].op, readers[t].args, readers[t].reads) :
          readers' = [readers EXCEPT ![t].phase = "returned",
                                     ![t].outcome = res.outcome,
                                     ![t].ret = res.ret]
    /\ UNCHANGED <<eloVars, poissonVars, valueVars, utilVars, xgVars, marketVars,
                   threadVars, scanVars>>

(***************************************************************************)
(* api/analysis.py: get_value_bets, the scan over the candidate fixtures   *)
(***************************************************************************)
\* upcoming_fixtures[:min(50, len(upcoming_fixtures))]
scan_limit == 50

UpcomingStatuses == {"NS", "TBD", "PST"}

\* the status of candidate i is the cycle's element at i
StatusCycles == {<<"NS">>, <<"NS", "FT">>, <<"FT", "TBD", "PST">>, <<"FT", "1H">>}

\* what analyze_betting_opportunities does for a fixture: it raises, returns
\* an error dict, or returns a dict whose 'value_bets' have these edges (in
\* percent); candidate i gets the cycle's element at i
AnalysisCycles ==
    {<<[kind |-> "value_bets", edges |-> <<12, 30>>]>>,
     <<[kind |-> "raise", edges |-> <<>>], [kind |-> "value_bets", edges |-> <<20>>]>>,
     <<[kind |-> "error", edges |-> <<>>],
       [kind |-> "value_bets", edges |-> <<12>>],
       [kind |-> "value_bets", edges |-> <<30, 12, 20>>]>>,
     <<[kind |-> "value_bets", edges |-> <<>>]>>}

\* the numbers of candidate fixtures: a few, and about scan_limit
FixtureCounts ==
    (0..MaxExtraFixtures)
    \cup ((scan_limit - MaxExtraFixtures)..(scan_limit + MaxExtraFixtures))

\* min_edge * 100 and max_results of the request
MinEdges == {5, 15, 25}
MaxResults == {-1, 0, 1, 10}

Cycle(cycle, i) == cycle[((i - 1) % Len(cycle)) + 1]

NoScanCall == [op |-> "none", n_fixtures |-> 0, statuses |-> <<>>,
               analyses |-> <<>>, min_edge |-> 0, max_results |-> 0,
               analysed |-> <<>>, ret |-> <<>>]

\* the ids, in order, of the candidates 1..n with an upcoming status
upcoming_fixtures(n, statuses) ==
    SelectSeq([i \in 1..n |-> i], LAMBDA i : Cycle(statuses, i) \in UpcomingStatuses)

\* the first k elements of xs for k >= 0, all but the last -k for k < 0
Slice(xs, k) ==
    IF k >= 0 THEN SubSeq(xs, 1, IF k < Len(xs) THEN k ELSE Len(xs))
    ELSE SubSeq(xs, 1, IF Len(xs) + k > 0 THEN Len(xs) + k ELSE 0)

\* the bets one analysed fixture adds to value_bets
fixture_bets(fixture_id, analysis, min_edge) ==
    IF analysis.kind # "value_bets" THEN <<>>
    ELSE SelectSeq([j \in 1..Len(analysis.edges) |->
                       [edge |-> analysis.edges[j], fixture_id |-> fixture_id]],
                   LAMBDA bet : bet.edge >= min_edge)

\* value_bets after the loop over the places lo..hi of fixtures_to_analyze
RECURSIVE collect_bets(_, _, _, _, _)
collect_bets(to_analyze, analyses, min_edge, lo, hi) ==
    IF lo > hi THEN <<>>
    ELSE IF lo = hi
    THEN fixture_bets(to_analyze[lo], Cycle(analyses, to_analyze[lo]), min_edge)
    ELSE collect_bets(to_analyze, analyses, min_edge, lo, (lo + hi) \div 2)
         \o collect_bets(to_analyze, analyses, min_edge, ((lo + hi) \div 2) + 1, hi)

\* value_bets.sort(key=edge, reverse=True), a stable sort: a bet comes behind
\* the bets of a larger edge and the earlier bets of the same edge
sort_by_edge(value_bets) ==
    LET n == Len(value_bets)
        place == Tabulated([j \in 1..n |->
                    1 + Cardinality({i \in 1..n :
                           \/ value_bets[i].edge > value_bets[j].edge
                           \/ value_bets[i].edge = value_bets[j].edge /\ i < j})])
    IN  [p \in 1..n |-> value_bets[CHOOSE j \in 1..n : place[j] = p]]

\* get_value_bets from the candidate list on: the fixtures analysed and the
\* response
get_value_bets(n, statuses, analyses, min_edge, max_results) ==
    LET upcoming == upcoming_fixtures(n, statuses)
        to_analyze == Slice(upcoming, IF scan_limit < Len(upcoming)
                                      THEN scan_limit ELSE Len(upcoming))
    IN  [analysed |-> to_analyze,
         ret |-> Slice(sort_by_edge(collect_bets(to_analyze, analyses, min_edge,
                                                 1, Len(to_analyze))),
                       max_results)]

ScanInit == scan_call = NoScanCall

\* one request to the value-bets endpoint
GetValueBets(n, statuses, analyses, min_edge, max_results) ==
    /\ scan_call.op = "none"
    /\ scan_call' = [op |-> "get_value_bets", n_fixtures |-> n,
                     statuses |-> statuses, analyses |-> analyses,
                     min_edge |-> min_edge, max_results |-> max_results,
                     analysed |-> get_value_bets(n, statuses, analyses, min_edge,
                                                 max_results).analysed,
                     ret |-> get_value_bets(n, statuses, analyses, min_edge,
                                            max_results).ret]
    /\ UNCHANGED <<eloVars, poissonVars, valueVars, utilVars, xgVars, marketVars,
                   threadVars, readerVars>>

\* the client lets go of the response
ScanReturn ==
    /\ scan_call.op # "none"
    /\ scan_call' = NoScanCall
    /\ UNCHANGED <<eloVars, poissonVars, valueVars, utilVars, xgVars, marketVars,
                   threadVars, readerVars>>

Init ==
    /\ EloInit
    /\ PoissonInit
    /\ ValueInit
    /\ UtilInit
    /\ XGInit
    /\ MarketInit
    /\ ThreadInit
    /\ ReaderInit
    /\ ScanInit

\* the instances as their constructors build them with default arguments
InitDefault == Init /\ k_factor = 40

EloNext ==
    \/ \E f \in Fixtures, res \in Results, imp \in Importances :
          UpdateRatings(f[1], f[2], res, imp)
    \/ \E t \in Teams : GetRating(t)
    \/ \E f \in Fixtures : PredictMatch(f[1], f[2])
    \/ \E ms \in BulkLists : BulkUpdate(ms)
    \/ BulkMatch
    \/ BulkFail
    \/ BulkReturn

PoissonNext ==
    \/ \E ms \in PoissonLists : Fit(ms)
    \/ \E f \in PredictFixtures : PredictScore(f[1], f[2])

PredictNext ==
    \/ \E ms \in PredictBatches : Fit(ms)
    \/ \E f \in PredictFixtures : PredictMatchResult(f[1], f[2])

ValueNext ==
    \/ \E odds \in OddsValues : ImpliedProbability(odds)
    \/ \E p \in Probabilities, odds \in OddsValues : CalculateValue(p, odds)

UtilNext == \E mean \in Means, k \in Counts : PoissonProbability(mean, k)

XGNext ==
    \/ \E shots_data \in TrainingLists : Train(shots_data)
    \/ \E shot_data \in Shots : PredictXG(shot_data)

MarketNext ==
    \/ /\ market_call.op = "none"
       /\ \/ \E match_prediction \in Predictions1x2, bookmaker_odds \in Odds1x2 :
                Analyze1x2Market(match_prediction, bookmaker_odds)
          \/ \E match_prediction \in OverUnderPredictions,
                bookmaker_odds \in OverUnderOddsDicts :
                AnalyzeOverUnderMarket(match_prediction, bookmaker_odds)
          \/ \E fixtures \in FixtureLists : FindValueBets(fixtures)
    \/ MarketReturn

ThreadNext ==
    \/ \E t \in Threads, f \in Fixtures, res \in ValidResults, locked \in BOOLEAN :
          ThreadCall(t, f[1], f[2], res, locked)
    \/ \E t \in Threads : ThreadRead(t)
    \/ \E t \in Threads : ThreadWriteHome(t)
    \/ \E t \in Threads : ThreadWriteAway(t)

\* updates and fits run while no reader is in a call; the readers interleave
\* freely
ReaderNext ==
    \/ /\ NoReaderInFlight
       /\ \/ UpdateRatings("TeamA", "TeamB", "home_win", 1)
          \/ \E ms \in ReaderBatches : Fit(ms)
    \/ \E t \in Readers, call \in ReaderCalls : ReaderCall(t, call[1], call[2])
    \/ \E t \in Readers : ReaderRead(t)
    \/ \E t \in Readers : ReaderReturn(t)

ScanNext ==
    \/ /\ scan_call.op = "none"
       /\ \E n \in FixtureCounts, statuses \in StatusCycles,
             analyses \in AnalysisCycles, min_edge \in MinEdges,
             max_results \in MaxResults :
             GetValueBets(n, statuses, analyses, min_edge, max_results)
    \/ ScanReturn

SpecElo == Init /\ [][EloNext]_vars

SpecPoisson == InitDefault /\ [][PoissonNext]_vars

SpecPredict == InitDefault /\ [][PredictNext]_vars

SpecValue == InitDefault /\ [][ValueNext]_vars

SpecUtils == InitDefault /\ [][UtilNext]_vars

SpecXG == InitDefault /\ [][XGNext]_vars

SpecMarket == InitDefault /\ [][MarketNext]_vars

SpecThreads == InitDefault /\ [][ThreadNext]_vars

SpecReaders == InitDefault /\ [][ReaderNext]_vars

SpecScan == InitDefault /\ [][ScanNext]_vars

(***************************************************************************)
(* Properties                                                              *)
(***************************************************************************)
\* a step that is a direct call of update_ratings; its arguments and return
\* value are in elo_call'
UpdateRatingsStep ==
    /\ bulk_i = 0
    /\ n_calls' = n_calls + 1
    /\ elo_call'.op = "update_ratings"

\* C1: update_ratings with a result label outside home_win / away_win / draw
\* fails with InvalidResultKind and writes no rating.
C1_InvalidResultRejected ==
    [][(UpdateRatingsStep /\ elo_call'.result \notin ValidResults)
          => (elo_call'.outcome = "InvalidResultKind" /\ ratings' = ratings)]_vars

\* C2: implied_probability and calculate_value fail with InvalidOddsError for
\* every odds value <= 1.0; they return no number and raise no other error.
C2_InvalidOddsRejected ==
    (vb_call.op \in {"implied_probability", "calculate_value"}
        /\ ~RatLess(RatOne, vb_call.odds))
      => vb_call.outcome = "InvalidOddsError"

\* C3 as stated: after update_ratings(A, B, 'home_win') with K > 0 and
\* expected_score(A) < 1 the stored rating of A is strictly greater and the
\* stored rating of B strictly smaller than before the call.
C3_StrictlyMonotone ==
    [][(UpdateRatingsStep /\ elo_call'.result = "home_win" /\ k_factor > 0
           /\ calculate_expected_score(ratings, elo_call'.home, elo_call'.away, TRUE) < ONE)
          => (/\ ratings'[elo_call'.home] > get_rating(ratings, elo_call'.home)
              /\ ratings'[elo_call'.away] < get_rating(ratings, elo_call'.away))]_vars

\* C3 amended: after update_ratings(A, B, 'home_win') with K > 0 the stored
\* rating of A is never smaller and that of B never greater than before; A's
\* rating rises strictly when the unrounded gain K * importance * (1 -
\* expected_home) exceeds half a point and is unchanged when the gain is
\* below half a point, and likewise B's rating and its unrounded loss
\* K * importance * expected_away.
C3_MonotoneUpToRounding ==
    [][(UpdateRatingsStep /\ elo_call'.result = "home_win" /\ k_factor > 0)
          => LET A == elo_call'.home
                 B == elo_call'.away
                 gain == k_factor * elo_call'.importance
                           * 2 * (ONE - Logistic(get_rating(ratings, A) + home_advantage,
                                                 get_rating(ratings, B)))
                 loss == k_factor * elo_call'.importance
                           * 2 * Logistic(get_rating(ratings, B), get_rating(ratings, A))
             IN  /\ ratings'[A] >= get_rating(ratings, A)
                 /\ ratings'[B] <= get_rating(ratings, B)
                 /\ gain > ONE => ratings'[A] > get_rating(ratings, A)
                 /\ gain < ONE => ratings'[A] = get_rating(ratings, A)
                 /\ loss > ONE => ratings'[B] < get_rating(ratings, B)
                 /\ loss < ONE => ratings'[B] = get_rating(ratings, B)]_vars

\* a home win whose gain for the home team was rounded away
C3_Witness ==
    /\ elo_call.op = "update_ratings"
    /\ elo_call.result = "home_win"
    /\ n_calls = 1
    /\ elo_call.ret[1] = default_rating
    /\ ratings[elo_call.home] = default_rating

\* C4: on a fresh tracker with the defaults, update_ratings('TeamA', 'TeamB',
\* 'home_win') returns and stores 1514 for TeamA and 1486 for TeamB.
C4_ScenarioRatings ==
    (/\ n_calls = 1
     /\ k_factor = 40
     /\ elo_call.op = "update_ratings"
     /\ elo_call.home = "TeamA" /\ elo_call.away = "TeamB"
     /\ elo_call.result = "home_win" /\ elo_call.importance = 1)
      => (/\ elo_call.ret = <<1514, 1486>>
          /\ ratings["TeamA"] = 1514
          /\ ratings["TeamB"] = 1486)

\* C5: every team that was home or away team of a processed update has a
\* stored rating, a team never seen in an update has no entry and reads as
\* the default 1500 (a read creates no entry), and no entry is ever removed.
C5_RatingsDefinedOncePlayed ==
    /\ [](/\ DOMAIN ratings = played
          /\ \A t \in Teams \ played : get_rating(ratings, t) = 1500
          /\ (elo_call.op = "get_rating" /\ elo_call.home \notin played)
                => elo_call.ret = <<1500>>)
    /\ [][DOMAIN ratings \subseteq DOMAIN ratings']_vars

\* get_rating of a team not seen in any update, on a tracker that has ratings
C5_Witness ==
    /\ elo_call.op = "get_rating"
    /\ elo_call.home \notin played
    /\ played # {}
    /\ elo_call.ret = <<1500>>

\* update_ratings called once per match, in list order, importance 1.0 when
\* the record has none
RECURSIVE SequentialUpdates(_, _, _)
SequentialUpdates(r, k, matches) ==
    IF matches = <<>> THEN r
    ELSE SequentialUpdates(
            update_ratings(r, k, Head(matches).home_team, Head(matches).away_team,
                           Head(matches).result,
                           IF "importance" \in Head(matches).keys
                           THEN Head(matches).importance ELSE 1),
            k, Tail(matches))

\* C6: when bulk_update(matches) returns, the rating map is the one reached by
\* calling update_ratings once per match in list order from the map the call
\* started with.
C6_BulkIsSequentialUpdates ==
    (elo_call.op = "bulk_update" /\ elo_call.outcome = "ok")
      => (/\ bulk_i = 0
          /\ ratings = SequentialUpdates(bulk_ratings0, k_factor, bulk_matches))

\* a returned bulk_update of two matches whose second match involves a team
\* rated by the first
C6_Witness ==
    /\ elo_call.op = "bulk_update"
    /\ elo_call.outcome = "ok"
    /\ Len(bulk_matches) = 2
    /\ bulk_matches[2].home_team \in {bulk_matches[1].home_team, bulk_matches[1].away_team}
    /\ "importance" \in bulk_matches[2].keys
    /\ ratings # bulk_ratings0

\* C7: when bulk_update fails at the record of index i, the error reaches the
\* caller, the updates of the records before i are applied and nothing else
\* has changed the ratings.
C7_BulkFailureKeepsPrefix ==
    (elo_call.op = "bulk_update" /\ elo_call.outcome = "KeyError")
      => LET i == elo_call.ret[1]
         IN  /\ bulk_i = 0
             /\ i \in 1..Len(bulk_matches)
             /\ RaisesKeyError(bulk_matches[i])
             /\ \A j \in 1..(i - 1) : ~RaisesKeyError(bulk_matches[j])
             /\ ratings = SequentialUpdates(bulk_ratings0, k_factor,
                                            SubSeq(bulk_matches, 1, i - 1))

\* a bulk_update that failed at its second record after the first was applied
C7_Witness ==
    /\ elo_call.op = "bulk_update"
    /\ elo_call.outcome = "KeyError"
    /\ elo_call.ret = <<2>>
    /\ ratings # bulk_ratings0

\* C8: predict_match returns home_win + draw + away_win = 1, draw = 0.30 and
\* home_win : away_win = e : (1 - e) for the expected score e of the home
\* team with the 100-point home bonus.
C8_PredictMatchProbabilities ==
    elo_call.op = "predict_match"
      => LET p == elo_call.ret
             e == Rat(Logistic(get_rating(ratings, elo_call.home) + 100,
                               get_rating(ratings, elo_call.away)), ONE)
         IN  /\ RatAdd(RatAdd(p[1], p[2]), p[3]) = RatOne
             /\ p[2] = <<3, 10>>
             /\ p[6] = e
             /\ RatLess(RatZero, p[3]) /\ RatLess(e, RatOne)
             /\ RatDiv(p[1], p[3]) = RatDiv(e, RatSub(RatOne, e))

\* predict_match on a tracker whose two teams have different stored ratings
C8_Witness ==
    /\ elo_call.op = "predict_match"
    /\ elo_call.home \in DOMAIN ratings
    /\ elo_call.away \in DOMAIN ratings
    /\ ratings[elo_call.home] # ratings[elo_call.away]

\* C9: fit on an empty match list does not raise and leaves team_attack and
\* team_defense as they were.
C9_EmptyFitIsNoOp ==
    [][(n_fits' = n_fits + 1 /\ poisson_call'.op = "fit"
           /\ poisson_call'.matches = <<>>)
          => (/\ poisson_call'.outcome = "ok"
              /\ team_attack' = team_attack
              /\ team_defense' = team_defense)]_vars

\* sum(coef.values()) / len(coef) as a number, nan included
Mean(coef) == FDiv(SumOver(coef, DOMAIN coef), <<Cardinality(DOMAIN coef), 1>>)

\* C10: after fit on a non-empty batch the mean attack coefficient and the
\* mean defense coefficient over the teams of the batch are both 1.
C10_MeansAreOne ==
    (poisson_call.op = "fit" /\ poisson_call.matches # <<>>)
      => (/\ DOMAIN team_attack = all_teams(poisson_call.matches)
          /\ DOMAIN team_defense = all_teams(poisson_call.matches)
          /\ Mean(team_attack) = RatOne
          /\ Mean(team_defense) = RatOne)

\* C11: after fit on a non-empty batch every attack coefficient and every
\* defense coefficient is strictly positive, also for a team without a goal
\* in its home matches or in its away matches.
C11_CoefficientsPositive ==
    (poisson_call.op = "fit" /\ poisson_call.matches # <<>>)
      => (/\ \A t \in DOMAIN team_attack : Positive(team_attack[t])
          /\ \A t \in DOMAIN team_defense : Positive(team_defense[t]))

\* C12: whatever was fitted before, after a fit on a non-empty batch the
\* coefficient maps are those of that fit on a fresh model and hold exactly
\* the teams of the batch; predict_score reads 1.0 for every other team, the
\* teams of earlier batches included.
C12_FitOverwritesWholesale ==
    fitted # <<>>
      => LET fresh == fit_table[fitted]
         IN  /\ team_attack = fresh.attack
             /\ team_defense = fresh.defense
             /\ DOMAIN team_attack = all_teams(fitted)
             /\ DOMAIN team_defense = all_teams(fitted)
             /\ poisson_call.op = "predict_score"
                   => poisson_call.ret = predict_score(fresh.attack, fresh.defense,
                                                       poisson_call.home,
                                                       poisson_call.away)

\* a second fit on a batch without a team of the first, and then a prediction
\* for that team
C12_Witness ==
    /\ n_fits = 2
    /\ fitted # <<>>
    /\ "TeamC" \notin all_teams(fitted)
    /\ poisson_call.op = "predict_score"
    /\ poisson_call.home = "TeamC"
    /\ poisson_call.ret = <<<<297, 160>>, <<11, 8>>>>

\* C13: predict_score returns without an error and leaves the coefficient
\* maps as they are; a team absent from the maps counts with attack 1.0 and
\* defense 1.0, so two absent teams give 1.35 * 1.375 and 1.375.
C13_PredictScoreDefaults ==
    /\ [](poisson_call.op = "predict_score"
            => /\ poisson_call.outcome = "ok"
               /\ ({poisson_call.home, poisson_call.away} \cap DOMAIN team_attack = {}
                     => poisson_call.ret = <<<<297, 160>>, <<11, 8>>>>)
               /\ (poisson_call.home \notin DOMAIN team_attack
                    /\ poisson_call.away \in DOMAIN team_attack)
                     => poisson_call.ret[1] =
                          FMul(team_defense[poisson_call.away], <<297, 160>>))
    /\ [][poisson_call'.op = "predict_score"
            => (team_attack' = team_attack /\ team_defense' = team_defense)]_vars

\* predict_score for two teams that are in no coefficient map, on a model
\* that was never fitted and on a fitted one
C13_Witness ==
    /\ poisson_call.op = "predict_score"
    /\ poisson_call.home = "TeamC" /\ poisson_call.away = "TeamD"
    /\ all_teams(fitted) = {"TeamA", "TeamB"}
    /\ poisson_call.ret = <<<<297, 160>>, <<11, 8>>>>

\* comparisons of floats: False as soon as one side is nan
Eq9(a, b) == a # NaN9 /\ b # NaN9 /\ a = b
Leq9(a, b) == a # NaN9 /\ b # NaN9 /\ a <= b

\* C14: on a fitted model predict_match_result with max_goals = 10 returns
\* home_win, draw and away_win that add up to the sum of all cells of the
\* scoreline matrix and to 1 with a residual below 1e-4.
C14_OutcomesSumToOne ==
    (poisson_call.op = "predict_match_result" /\ fitted # <<>>)
      => LET r == poisson_call.ret.result
             total == Add9(Add9(r.home_win, r.draw), r.away_win)
             probs == result_probs_table[r.expected_goals]
         IN  /\ Eq9(total, SumCells(probs, Cells(max_goals_default), max_goals_default))
             /\ Leq9(ONE9 - total, ONE9 \div 10000 - 1)
             /\ Leq9(total - ONE9, ONE9 \div 10000 - 1)

\* the cells with i + j = t, from row i on, summed
RECURSIVE Antidiagonal(_, _, _)
Antidiagonal(probs, t, i) ==
    IF i > t THEN 0 ELSE Add9(probs[<<i, t - i>>], Antidiagonal(probs, t, i + 1))

\* C15: for each threshold 0.5, ..., 4.5 predict_match_result returns under
\* as the sum of the cells with a goal total below the threshold and over as
\* 1 - under, so over + under = 1, under does not decrease and over does not
\* increase from one threshold to the next.
C15_OverUnder ==
    poisson_call.op = "predict_match_result"
      => LET r == poisson_call.ret.result
             probs == result_probs_table[r.expected_goals]
         IN  \A t \in ThresholdFloors :
                /\ Eq9(r.under[t],
                       Add9(IF t = 0 THEN 0 ELSE r.under[t - 1],
                            Antidiagonal(probs, t, 0)))
                /\ Eq9(r.over[t], OneMinus9(r.under[t]))
                /\ Eq9(Add9(r.over[t], r.under[t]), ONE9)
                /\ t > 0 => (/\ Leq9(r.under[t - 1], r.under[t])
                             /\ Leq9(r.over[t], r.over[t - 1]))

\* C16: predict_match_result returns five scores in non-increasing order of
\* probability; of two scores of equal probability the one that comes first
\* in row-major order is ranked first, and it is the one kept when the tie is
\* at the end of the five.
C16_TopFiveRowMajorTies ==
    poisson_call.op = "predict_match_result"
      => LET top == poisson_call.ret.most_likely_scores
             probs == result_probs_table[poisson_call.ret.result.expected_goals]
             ranked == {<<top[k][1], top[k][2]>> : k \in 1..Len(top)}
             Before(c, e) ==
                 \/ (probs[c] # NaN9 /\ probs[e] # NaN9 /\ probs[c] > probs[e])
                 \/ (Eq9(probs[c], probs[e])
                       /\ FlatIndex(c, max_goals_default) < FlatIndex(e, max_goals_default))
         IN  /\ Len(top) = 5
             /\ \A k \in 1..4 : Before(<<top[k][1], top[k][2]>>,
                                        <<top[k + 1][1], top[k + 1][2]>>)
             /\ \A c \in Cells(max_goals_default) \ ranked :
                   Before(<<top[5][1], top[5][2]>>, c)

Clamp01(x) == IF RatLess(x, RatZero) THEN RatZero
              ELSE IF RatLess(RatOne, x) THEN RatOne ELSE x

\* C18: on an untrained XGModel predict_xg returns clamp(max(0, 1 -
\* distance/30) * (1 - |angle|/90) + 0.3 for a big chance - 0.2 for a header,
\* 0, 1), a value in [0, 1] fixed by the shot record alone (distance 18 and
\* angle 45 when the record has none).
C18_HeuristicXG ==
    (xg_call.op = "predict_xg" /\ ~is_trained)
      => LET shot == xg_call.shots[1]
             distance == IF "distance" \in DOMAIN shot THEN shot.distance ELSE 18
             angle == IF "angle" \in DOMAIN shot THEN shot.angle ELSE 45
             distance_factor == IF distance >= 30 THEN RatZero
                                ELSE Rat(30 - distance, 30)
             angle_factor == Rat(90 - Abs(angle), 90)
             bonus == IF "is_big_chance" \in DOMAIN shot /\ shot.is_big_chance = 1
                      THEN 3 ELSE 0
             penalty == IF shot.is_header = 1 THEN 2 ELSE 0
         IN  /\ xg_call.outcome = "ok"
             /\ xg_call.ret = Clamp01(RatAdd(RatMul(distance_factor, angle_factor),
                                             Rat(bonus - penalty, 10)))
             /\ ~RatLess(xg_call.ret, RatZero)
             /\ ~RatLess(RatOne, xg_call.ret)

\* a header from beyond 30 metres on an untrained model: -0.2 clamped to 0
C18_Witness ==
    /\ xg_call.op = "predict_xg"
    /\ ~is_trained
    /\ "distance" \in DOMAIN xg_call.shots[1]
    /\ xg_call.shots[1].distance > 30
    /\ xg_call.shots[1].is_header = 1
    /\ xg_call.shots[1].is_big_chance = 0
    /\ xg_call.ret = RatZero

\* C19: train on an empty list leaves the trained flag as it is, train on a
\* non-empty list sets it, no call clears it, and predict_xg takes the
\* heuristic path exactly when the flag is unset.
C19_TrainedFlag ==
    [][/\ (xg_call'.op = "train" /\ xg_call'.shots = <<>>)
            => is_trained' = is_trained
       /\ (xg_call'.op = "train" /\ xg_call'.shots # <<>>) => is_trained'
       /\ is_trained => is_trained'
       /\ xg_call'.op = "predict_xg"
            => (/\ is_trained' = is_trained
                /\ xg_call'.path = "heuristic" <=> ~is_trained
                /\ xg_call'.path = "model" <=> is_trained)]_vars

\* a prediction by the fitted forest after a training on goals and misses
C19_Witness ==
    /\ is_trained
    /\ model_classes = {0, 1}
    /\ xg_call.op = "predict_xg"
    /\ xg_call.path = "model"
    /\ xg_call.outcome = "ok"

\* C20: calculate_value(p, odds) = p * odds - 1; for odds above 1 it does not
\* decrease when p grows, and for p in [0, 1] it does not decrease when the
\* odds grow.
C20_ValueMonotone ==
    (vb_call.op = "calculate_value" /\ vb_call.outcome = "ok")
      => (/\ vb_call.ret = RatSub(RatMul(vb_call.probability, vb_call.odds), RatOne)
          /\ RatLess(RatOne, vb_call.odds)
                => \A p2 \in Probabilities :
                      ~RatLess(p2, vb_call.probability)
                        => ~RatLess(calculate_value(p2, vb_call.odds).ret, vb_call.ret)
          /\ \A o2 \in OddsValues :
                (o2[1] # 0 /\ ~RatLess(o2, vb_call.odds))
                  => ~RatLess(calculate_value(vb_call.probability, o2).ret,
                              vb_call.ret))

\* calculate_value(0.5, 2.0) = 0: a larger p or larger odds give a larger value
C20_Witness ==
    /\ vb_call.op = "calculate_value"
    /\ vb_call.outcome = "ok"
    /\ vb_call.probability = <<1, 2>>
    /\ vb_call.odds = <<2, 1>>
    /\ vb_call.ret = RatZero
    /\ RatLess(vb_call.ret, calculate_value(<<3, 4>>, vb_call.odds).ret)
    /\ RatLess(vb_call.ret, calculate_value(vb_call.probability, <<3, 1>>).ret)

\* C21: analyze_1x2_market flags an outcome exactly when its value p * odds - 1
\* is strictly above the threshold, names as best_value_bet the first outcome
\* in the order home_win, draw, away_win whose value is the maximum, and sets
\* has_value_bet exactly when that maximum is strictly above the threshold,
\* which is exactly when some outcome is flagged.
C21_Analyze1x2 ==
    (market_call.op = "analyze_1x2_market" /\ market_call.outcome = "ok")
      => LET value(m) == RatSub(RatMul(market_call.prediction[m],
                                       market_call.odds[m]), RatOne)
             ret == market_call.ret
             place(m) == CHOOSE i \in 1..Len(OutcomeKeys) : OutcomeKeys[i] = m
         IN  /\ \A m \in Range(OutcomeKeys) :
                   /\ ret.entries[m].value = value(m)
                   /\ ret.entries[m].is_value_bet
                        <=> RatLess(min_value_threshold, value(m))
             /\ ret.best_value_bet \in Range(OutcomeKeys)
             /\ \A m \in Range(OutcomeKeys) :
                   /\ ~RatLess(value(ret.best_value_bet), value(m))
                   /\ place(m) < place(ret.best_value_bet)
                        => RatLess(value(m), value(ret.best_value_bet))
             /\ ret.has_value_bet
                  <=> RatLess(min_value_threshold, value(ret.best_value_bet))
             /\ ret.has_value_bet
                  <=> \E m \in Range(OutcomeKeys) : ret.entries[m].is_value_bet

\* home_win and draw both have a value of exactly 0.05, away_win of 0: nothing
\* is flagged and the tie goes to home_win
C21_Witness ==
    /\ market_call.op = "analyze_1x2_market"
    /\ market_call.outcome = "ok"
    /\ market_call.ret.entries["home_win"].value = min_value_threshold
    /\ market_call.ret.entries["draw"].value = min_value_threshold
    /\ market_call.ret.entries["away_win"].value = RatZero
    /\ ~market_call.ret.entries["home_win"].is_value_bet
    /\ market_call.ret.best_value_bet = "home_win"
    /\ ~market_call.ret.has_value_bet

\* the keys of the model probabilities of the analysed market
PredictionKeys ==
    IF market_call.op = "analyze_1x2_market" THEN DOMAIN market_call.prediction
    ELSE Range(market_call.prediction[2])

\* C22: in analyze_1x2_market and in analyze_over_under_market a market key
\* that only one of the two inputs has is skipped without an error: the call
\* returns, the result has no entry for the key and the key is not
\* best_value_bet.
C22_MissingKeysSkipped ==
    (market_call.op \in {"analyze_1x2_market", "analyze_over_under_market"})
      => \A m \in (PredictionKeys \cup DOMAIN market_call.odds)
                    \ (PredictionKeys \cap DOMAIN market_call.odds) :
            /\ market_call.outcome \in {"ok", "ZeroDivisionError"}
            /\ market_call.outcome = "ok"
                  => /\ m \notin DOMAIN market_call.ret.entries
                     /\ market_call.ret.best_value_bet # m

\* C23: an outcome with model probability 0 has value -1 whatever the odds the
\* call accepts, is not flagged, and when it is best_value_bet has_value_bet
\* is false; analyze_over_under_market on inputs whose common keys all have
\* model probability 0 returns best_value_bet None and has_value_bet false.
C23_ZeroProbability ==
    (market_call.op \in {"analyze_1x2_market", "analyze_over_under_market"}
       /\ market_call.outcome = "ok")
      => LET ret == market_call.ret
             zero(m) == ret.entries[m].model_probability = RatZero
         IN  /\ \A m \in DOMAIN ret.entries :
                   zero(m) => /\ ret.entries[m].value = <<-1, 1>>
                              /\ ~ret.entries[m].is_value_bet
                              /\ ret.best_value_bet = m => ~ret.has_value_bet
             /\ (market_call.op = "analyze_over_under_market"
                   /\ \A m \in DOMAIN ret.entries : zero(m))
                  => ret.best_value_bet = "None" /\ ~ret.has_value_bet

\* two over/under markets with odds 2.1 and 4.2, both with probability 0
C23_Witness ==
    /\ market_call.op = "analyze_over_under_market"
    /\ market_call.outcome = "ok"
    /\ market_call.prediction = <<<<RatZero, RatZero>>, <<"over_2.5", "under_2.5">>>>
    /\ DOMAIN market_call.ret.entries = {"over_2.5", "under_2.5"}
    /\ market_call.ret.entries["over_2.5"].odds = <<21, 10>>
    /\ market_call.ret.entries["under_2.5"].odds = <<21, 5>>
    /\ market_call.ret.entries["over_2.5"].value = <<-1, 1>>
    /\ market_call.ret.best_value_bet = "None"
    /\ ~market_call.ret.has_value_bet

\* the market of a fixture is analysed and has a value bet
Flagged1x2(fixture) ==
    /\ {"model_1x2", "odds_1x2"} \subseteq DOMAIN fixture
    /\ analyze_1x2_market(fixture["model_1x2"], fixture["odds_1x2"]).ret.has_value_bet

FlaggedOverUnder(fixture) ==
    /\ {"model_over_under", "odds_over_under"} \subseteq DOMAIN fixture
    /\ analyze_over_under_market(fixture["model_over_under"],
                                 fixture["odds_over_under"]).ret.has_value_bet

\* C24: the list find_value_bets returns holds, in the order of the input and
\* once each, exactly the fixtures with a flagged market among the markets
\* both of whose inputs the fixture has, each with the analyses of those
\* markets; no other fixture is in it.
C24_FindValueBets ==
    (market_call.op = "find_value_bets" /\ market_call.outcome = "ok")
      => LET fixtures == market_call.fixtures
             ret == market_call.ret
             kept == {i \in 1..Len(fixtures) :
                        Flagged1x2(fixtures[i]) \/ FlaggedOverUnder(fixtures[i])}
         IN  /\ Len(ret) = Cardinality(kept)
             /\ {ret[j].fixture_id : j \in 1..Len(ret)} = kept
             /\ \A j, k \in 1..Len(ret) :
                   j < k => ret[j].fixture_id < ret[k].fixture_id
             /\ \A j \in 1..Len(ret) :
                   /\ ret[j].has_value_bet
                   /\ "1x2" \in DOMAIN ret[j].markets
                        <=> {"model_1x2", "odds_1x2"}
                              \subseteq DOMAIN fixtures[ret[j].fixture_id]
                   /\ "over_under" \in DOMAIN ret[j].markets
                        <=> {"model_over_under", "odds_over_under"}
                              \subseteq DOMAIN fixtures[ret[j].fixture_id]

\* of two fixtures the first has both markets analysed and none flagged
\* (values of exactly 0.05), the second has its over/under market flagged:
\* only the second is returned
C24_Witness ==
    /\ market_call.op = "find_value_bets"
    /\ market_call.outcome = "ok"
    /\ Len(market_call.fixtures) = 2
    /\ DOMAIN market_call.fixtures[1]
         = {"id", "model_1x2", "odds_1x2", "model_over_under", "odds_over_under"}
    /\ ~Flagged1x2(market_call.fixtures[1])
    /\ ~FlaggedOverUnder(market_call.fixtures[1])
    /\ "model_1x2" \notin DOMAIN market_call.fixtures[2]
    /\ FlaggedOverUnder(market_call.fixtures[2])
    /\ Len(market_call.ret) = 1
    /\ market_call.ret[1].fixture_id = 2
    /\ market_call.ret[1].markets["over_under"].best_value_bet = "over_2.5"

\* the rating map after the calls of threads t and u, one after the other, on
\* an empty map
SerialOrder(t, u) ==
    update_ratings(update_ratings(<<>>, k_factor, threads[t].home, threads[t].away,
                                  threads[t].result, threads[t].importance),
                   k_factor, threads[u].home, threads[u].away,
                   threads[u].result, threads[u].importance)

BothReturned == \A t \in Threads : threads[t].pc = Len(Positions) + 1

\* C25: when the two update_ratings calls are mutually excluded, the rating
\* map they leave is that of one of the two serial orders; a call reads the
\* old ratings before it writes the new ones, and a lost update is reachable
\* when the calls are not excluded (C25_Witness).
C25_ExcludedCallsAreSerial ==
    /\ (BothReturned /\ \A t \in Threads : threads[t].locked)
          => ratings \in {SerialOrder(1, 2), SerialOrder(2, 1)}
    /\ \A t \in Threads :
          (threads[t].locked /\ threads[t].pc \in DOMAIN Positions)
            => mutex = t /\ \A u \in Threads \ {t} :
                               threads[u].locked
                                 => threads[u].pc \notin DOMAIN Positions

\* both calls ran without exclusion, both read the old ratings before either
\* wrote, and the rating of a team of both calls is that of neither serial
\* order
C25_Witness ==
    /\ BothReturned
    /\ \A t \in Threads : ~threads[t].locked
    /\ \E team \in {threads[1].home, threads[1].away}
                      \cap {threads[2].home, threads[2].away} :
          /\ ratings[team] # SerialOrder(1, 2)[team]
          /\ ratings[team] # SerialOrder(2, 1)[team]

\* the results of a call made alone on the rating map r and the coefficient
\* maps att and def
AloneResults(r, att, def, op, args) ==
    CASE op = "get_rating" -> {[outcome |-> "ok", ret |-> get_rating(r, args[1])]}
      [] op = "calculate_expected_score" ->
           {[outcome |-> "ok",
             ret |-> calculate_expected_score(r, args[1], args[2], args[3])]}
      [] op = "predict_match" ->
           {[outcome |-> "ok", ret |-> predict_match(r, args[1], args[2])]}
      [] op = "predict_score" ->
           {[outcome |-> "ok", ret |-> predict_score(att, def, args[1], args[2])]}
      [] op = "predict_match_result" ->
           {[outcome |-> "ok", ret |-> ret] :
              ret \in predict_table[predict_score(att, def, args[1], args[2])]}
      [] op = "analyze_1x2_market" -> {analyze_1x2_market(args[1], args[2])}
      [] op = "analyze_over_under_market" ->
           {analyze_over_under_market(args[1], args[2])}
      [] op = "find_value_bets" -> {find_value_bets(args[1])}

\* a step of a reader: a call, a read or a return of a read-only operation
ReaderStep(t) ==
    \/ readers'[t].phase # readers[t].phase
    \/ Len(readers'[t].reads) # Len(readers[t].reads)

\* C26: every step of a read-only operation leaves the rating map, the
\* coefficient maps and the dicts passed to the operation unchanged, and a
\* reader that returns while other readers are in their calls returns a
\* result of the operation run alone on the state it returns in.
C26_ReadersDoNotInterfere ==
    [][\A t \in Readers :
          ReaderStep(t)
            => /\ ratings' = ratings
               /\ team_attack' = team_attack
               /\ team_defense' = team_defense
               /\ readers[t].phase = "reading" => readers'[t].args = readers[t].args
               /\ readers'[t].phase = "returned"
                    => [outcome |-> readers'[t].outcome, ret |-> readers'[t].ret]
                         \in AloneResults(ratings, team_attack, team_defense,
                                          readers[t].op, readers[t].args)]_vars

\* after an update and a fit, reader 1 has returned predict_match for TeamA
\* against TeamB while reader 2 is half way through predict_score
C26_Witness ==
    /\ DOMAIN ratings = {"TeamA", "TeamB"}
    /\ DOMAIN team_attack = {"TeamA", "TeamB"}
    /\ readers[1].phase = "returned"
    /\ readers[1].op = "predict_match"
    /\ readers[1].args = <<"TeamA", "TeamB">>
    /\ readers[1].ret[4] = ratings["TeamA"]
    /\ readers[2].phase = "reading"
    /\ readers[2].op = "predict_score"
    /\ Len(readers[2].reads) = 2

\* C27: a scan analyses the first scan_limit upcoming candidates at most, in
\* their order; a fixture whose analysis raises or returns an error dict has
\* no bet in the response; the response holds at most max_results bets, in
\* non-increasing order of edge, each with an edge of min_edge * 100 at least.
C27_ScanBounds ==
    (scan_call.op = "get_value_bets")
      => LET upcoming == upcoming_fixtures(scan_call.n_fixtures, scan_call.statuses)
             ret == scan_call.ret
         IN  /\ Len(scan_call.analysed) <= scan_limit
             /\ Len(scan_call.analysed) <= Len(upcoming)
             /\ Len(scan_call.analysed) < Len(upcoming)
                  => Len(scan_call.analysed) = scan_limit
             /\ scan_call.analysed = SubSeq(upcoming, 1, Len(scan_call.analysed))
             /\ \A j \in 1..Len(ret) :
                   /\ ret[j].fixture_id \in Range(scan_call.analysed)
                   /\ Cycle(scan_call.analyses, ret[j].fixture_id).kind = "value_bets"
                   /\ ret[j].edge >= scan_call.min_edge
                   /\ j < Len(ret) => ret[j].edge >= ret[j + 1].edge
             /\ Len(ret) <= scan_call.max_results

\* C28: in every update_ratings call the expected scores of the two teams add
\* up to 1 (to the last digit of the fixed point), and with importance 1 the
\* sum of the two ratings after the call differs from the sum before it by the
\* two roundings at most, that is by no more than one point.
C28_ExpectedScoresComplementary ==
    [][UpdateRatingsStep
          => LET home == elo_call'.home
                 away == elo_call'.away
                 expected_home == calculate_expected_score(ratings, home, away, TRUE)
                 expected_away == calculate_expected_score(ratings, away, home, FALSE)
             IN  /\ Abs(expected_home + expected_away - ONE) <= 2
                 /\ elo_call'.importance = 1
                      => Abs((ratings'[home] + ratings'[away])
                               - (get_rating(ratings, home)
                                    + get_rating(ratings, away))) <= 1]_vars

\* C29: every defence coefficient is 1.0 after a fit, for each team of the
\* fitted batch and whatever the goals it conceded, so that predict_score
\* gives a team attack * 1.35 * 2.75 / 2 at home and attack * 2.75 / 2 away,
\* whoever the opponent is.
C29_DefenseStaysOne ==
    /\ \A t \in DOMAIN team_defense : team_defense[t] = RatOne
    /\ fitted # <<>> => DOMAIN team_defense = all_teams(fitted)
    /\ poisson_call.op = "predict_score"
         => /\ poisson_call.ret[1]
                 = FDiv(FMul(FMul(get_coefficient(team_attack, poisson_call.home),
                                  poisson_home_advantage), league_avg_goals),
                        <<2, 1>>)
            /\ poisson_call.ret[2]
                 = FDiv(FMul(get_coefficient(team_attack, poisson_call.away),
                             league_avg_goals), <<2, 1>>)

\* TeamB conceded a goal at TeamA in the fitted batch and kept a clean sheet
\* against TeamC; its defence is 1.0 and predict_score was called for TeamA
\* against TeamB
C29_Witness ==
    /\ Len(fitted) = 2
    /\ \E i \in 1..Len(fitted) :
          /\ fitted[i].home_team = "TeamA"
          /\ fitted[i].away_team = "TeamB"
          /\ fitted[i].home_goals = 1
    /\ \E i \in 1..Len(fitted) :
          /\ fitted[i].home_team = "TeamB"
          /\ fitted[i].away_goals = 0
    /\ team_defense["TeamB"] = RatOne
    /\ team_defense["TeamC"] = RatOne
    /\ ~IsNaN(team_attack["TeamA"])
    /\ team_attack["TeamA"] # RatOne
    /\ poisson_call.op = "predict_score"
    /\ poisson_call.home = "TeamA"
    /\ poisson_call.away = "TeamB"

\* the maps after the first n passes of fit on the batch ms, each pass
\* evaluated before the next one starts
RECURSIVE passes_from(_, _, _, _)
passes_from(coef, ms, avg, n) ==
    IF n = 0 THEN coef
    ELSE LET pass == fit_pass(coef.attack, coef.defense, ms, avg)
         IN  passes_from([attack |-> Tabulated(pass.attack),
                          defense |-> Tabulated(pass.defense)], ms, avg, n - 1)

fit_passes(ms, n) ==
    passes_from([attack |-> [t \in all_teams(ms) |-> RatOne],
                 defense |-> [t \in all_teams(ms) |-> RatOne]],
                ms, avg_goals(ms), n)

\* teams of the batch with a home match, an away match and a home goal
ScoredAtHomeAndPlayedAway(ms) ==
    {t \in all_teams(ms) :
        /\ home_matches(ms, t) # <<>>
        /\ away_matches(ms, t) # <<>>
        /\ SumInts(Column(home_matches(ms, t), "home_goals")) >= 1}

\* the batch with one more home goal for the team in each of its home matches
more_home_goals(ms, team) ==
    [i \in 1..Len(ms) |->
        IF ms[i].home_team = team
        THEN [ms[i] EXCEPT !.home_goals = @ + 1] ELSE ms[i]]

\* C30: after a fit the attack map is the one the first pass already gave
\* (passes 2 to 5 change nothing, in exact arithmetic), and for a team with a
\* home match, an away match and at least one home goal the step of the
\* first pass gives away_goals / (away_games * avg_goals), the away scaling
\* alone, and the fitted attack map is the same when the team scores more
\* goals at home.
C30_FixedPointAfterFirstPass ==
    (poisson_call.op = "fit" /\ poisson_call.outcome = "ok")
        => /\ team_attack = fit_passes(fitted, 1).attack
           /\ \A n \in 2..NumIterations :
                 fit_passes(fitted, n).attack = team_attack
           /\ \A t \in ScoredAtHomeAndPlayedAway(fitted) :
                 /\ scale_attack([u \in all_teams(fitted) |-> RatOne],
                                 [u \in all_teams(fitted) |-> RatOne],
                                 fitted, t, avg_goals(fitted))
                      = FDiv(<<SumInts(Column(away_matches(fitted, t), "away_goals")), 1>>,
                             FMul(<<Len(away_matches(fitted, t)), 1>>,
                                  avg_goals(fitted)))
                 /\ fit_passes(more_home_goals(fitted, t), NumIterations).attack
                      = team_attack

\* fit([TeamA-TeamB 1:1, TeamB-TeamC 1:0]): TeamB scored at home and away,
\* and its attack 81/47 is 1 / mean(1/1.35, 1, 0), its away goals per away
\* game over the mean
C30_Witness ==
    /\ poisson_call.op = "fit"
    /\ poisson_call.outcome = "ok"
    /\ Len(fitted) = 2
    /\ fitted[1] = [home_team |-> "TeamA", away_team |-> "TeamB",
                    home_goals |-> 1, away_goals |-> 1]
    /\ fitted[2] = [home_team |-> "TeamB", away_team |-> "TeamC",
                    home_goals |-> 1, away_goals |-> 0]
    /\ "TeamB" \in ScoredAtHomeAndPlayedAway(fitted)
    /\ team_attack["TeamB"] = <<81, 47>>
    /\ team_attack["TeamC"] = RatZero

====
